---- MODULE Spec2Model ----
(***************************************************************************)
(* Expense extraction pipeline of the WhatsApp expense bot:                *)
(*   index.js            handleMessage, extractAccountDirective, the       *)
(*                       message_create listener and its filters           *)
(*   sheets.js           appendExpense, concurrent appendToCsv calls       *)
(*   expenseParser.js    ExpenseParser.parse, fallbackParseText,           *)
(*                       normalizeCurrency, formatDateFromTimestamp        *)
(*   gemini.js           cleanJsonResponse, coerceNumber,                  *)
(*                       GeminiService.normalizeResponse                   *)
(*                                                                         *)
(* JavaScript strings are sequences of one-character strings, so that the  *)
(* regular expressions, trim, split, padStart and parseFloat of the code   *)
(* are computed character by character.                                    *)
(***************************************************************************)
EXTENDS Integers, Sequences, FiniteSets, TLC

----------------------------------------------------------------------------
(* Characters and the String built-ins the code uses.                      *)

UpperLetters == <<"A","B","C","D","E","F","G","H","I","J","K","L","M",
                  "N","O","P","Q","R","S","T","U","V","W","X","Y","Z">>

LowerLetters == <<"a","b","c","d","e","f","g","h","i","j","k","l","m",
                  "n","o","p","q","r","s","t","u","v","w","x","y","z">>

DigitChars == <<"0","1","2","3","4","5","6","7","8","9">>

Range(f) == {f[i] : i \in DOMAIN f}

\* [A-Z], [a-z], [A-Za-z] (also what \p{L} matches on the modelled alphabet)
UpperSet == Range(UpperLetters)
LowerSet == Range(LowerLetters)
LetterSet == UpperSet \cup LowerSet

\* \d and [0-9]
DigitSet == Range(DigitChars)

\* \s
SpaceSet == {" ", "\t", "\n"}

\* \w
WordSet == LetterSet \cup DigitSet \cup {"_"}

\* Length of the longest prefix of s made of characters of S.
PrefixLen(s, S) ==
  IF \E i \in 1..Len(s) : s[i] \notin S
    THEN (CHOOSE i \in 1..Len(s) :
            s[i] \notin S /\ \A j \in 1..(i-1) : s[j] \in S) - 1
    ELSE Len(s)

\* Length of the longest suffix of s made of characters of S.
SuffixLen(s, S) ==
  IF \E i \in 1..Len(s) : s[i] \notin S
    THEN Len(s) - (CHOOSE i \in 1..Len(s) :
                     s[i] \notin S /\ \A j \in (i+1)..Len(s) : s[j] \in S)
    ELSE Len(s)

\* String.prototype.slice(from) with a 1-based first index.
Drop(s, n) == SubSeq(s, n + 1, Len(s))

\* String.prototype.trim
trim(s) ==
  LET a == PrefixLen(s, SpaceSet)
  IN  IF a = Len(s) THEN <<>>
      ELSE SubSeq(s, a + 1, Len(s) - SuffixLen(s, SpaceSet))

\* String.prototype.toUpperCase, one character
UpperChar(c) ==
  IF c \in LowerSet
    THEN UpperLetters[CHOOSE i \in 1..26 : LowerLetters[i] = c]
    ELSE c

\* String.prototype.toUpperCase
toUpperCase(s) == [i \in 1..Len(s) |-> UpperChar(s[i])]

\* String.prototype.toLowerCase
LowerChar(c) ==
  IF c \in UpperSet
    THEN LowerLetters[CHOOSE i \in 1..26 : UpperLetters[i] = c]
    ELSE c

toLowerCase(s) == [i \in 1..Len(s) |-> LowerChar(s[i])]

\* String.prototype.includes for a one-character needle
includes(s, c) == \E i \in 1..Len(s) : s[i] = c

\* String.prototype.indexOf for a one-character needle; 0 when absent
\* (the code's -1), positions counted from 1.
indexOf(s, c) ==
  IF includes(s, c) THEN CHOOSE i \in 1..Len(s) :
                           s[i] = c /\ \A j \in 1..(i-1) : s[j] # c
  ELSE 0

\* String.prototype.lastIndexOf for a one-character needle; 0 when absent.
lastIndexOf(s, c) ==
  IF includes(s, c) THEN CHOOSE i \in 1..Len(s) :
                           s[i] = c /\ \A j \in (i+1)..Len(s) : s[j] # c
  ELSE 0

\* s.replace(/[^...]/g, '') : keep only the characters of S
KeepOnly(s, S) == SelectSeq(s, LAMBDA c : c \in S)

\* s.replace(/c/g, '') : drop every occurrence of the character c
RemoveAll(s, c) == SelectSeq(s, LAMBDA x : x # c)

\* s.replace(c, d) with a string pattern: only the first occurrence
ReplaceFirst(s, c, d) ==
  LET i == indexOf(s, c)
  IN  IF i = 0 THEN s ELSE [k \in 1..Len(s) |-> IF k = i THEN d ELSE s[k]]

\* String.prototype.split(/[\/-]/) : split at every character of S
RECURSIVE split(_, _)
split(s, S) ==
  LET n == PrefixLen(s, Range(s) \ S)
  IN  IF n = Len(s) THEN <<s>>
      ELSE <<SubSeq(s, 1, n)>> \o split(Drop(s, n + 1), S)

\* String.prototype.padStart(n, pad)
padStart(s, n, pad) ==
  IF Len(s) >= n \/ pad = <<>> THEN s
  ELSE LET need == n - Len(s)
           RECURSIVE fill(_)
           fill(k) == IF k = 0 THEN <<>>
                      ELSE fill(k - 1) \o <<pad[((k - 1) % Len(pad)) + 1]>>
       IN  fill(need) \o s

----------------------------------------------------------------------------
(* Numbers.  A JavaScript number is NaN or sign * mant / 10^scale, kept    *)
(* normalised (no trailing zero in the fraction).                          *)

NaN == [nan |-> TRUE, neg |-> FALSE, mant |-> 0, scale |-> 0]

RECURSIVE Normalise(_)
Normalise(n) ==
  IF n.scale > 0 /\ n.mant % 10 = 0
    THEN Normalise([n EXCEPT !.mant = n.mant \div 10, !.scale = n.scale - 1])
    ELSE n

DigitVal(c) == (CHOOSE i \in 1..10 : DigitChars[i] = c) - 1

RECURSIVE DigitsToNat(_)
DigitsToNat(d) ==
  IF d = <<>> THEN 0
  ELSE DigitsToNat(SubSeq(d, 1, Len(d) - 1)) * 10 + DigitVal(d[Len(d)])

\* Number.parseFloat on strings without exponent or "Infinity" (both call
\* sites pass strings over the characters 0-9 . , - only): leading white
\* space, optional sign, digits, optional fraction; NaN without any digit.
parseFloat(str) ==
  LET s1    == Drop(str, PrefixLen(str, SpaceSet))
      signd == s1 # <<>> /\ s1[1] \in {"+", "-"}
      neg   == s1 # <<>> /\ s1[1] = "-"
      s2    == IF signd THEN Drop(s1, 1) ELSE s1
      ni    == PrefixLen(s2, DigitSet)
      s3    == Drop(s2, ni)
      dot   == s3 # <<>> /\ s3[1] = "."
      nf    == IF dot THEN PrefixLen(Drop(s3, 1), DigitSet) ELSE 0
      ds    == SubSeq(s2, 1, ni) \o (IF dot THEN SubSeq(s3, 2, nf + 1) ELSE <<>>)
  IN  IF ni + nf = 0 THEN NaN
      ELSE Normalise([nan |-> FALSE, neg |-> neg,
                      mant |-> DigitsToNat(ds), scale |-> nf])

\* Number.isFinite (no modelled number is infinite)
isFinite(n) == ~n.nan

\* n > 0
IsPositive(n) == ~n.nan /\ ~n.neg /\ n.mant > 0

\* !n for a number: true for NaN, 0 and -0
IsFalsyNumber(n) == n.nan \/ n.mant = 0

RECURSIVE NatToDigits(_)
NatToDigits(k) ==
  IF k < 10 THEN <<DigitChars[k + 1]>>
  ELSE NatToDigits(k \div 10) \o <<DigitChars[(k % 10) + 1]>>

\* String(n) for a number: "NaN", or the shortest decimal text (integer
\* digits, then a point and the fraction digits when there are any); zero
\* prints without sign.  Exponent notation (1e21 and above, below 1e-6) is
\* outside the modelled amounts.
NumberToString(n) ==
  IF n.nan THEN <<"N", "a", "N">>
  ELSE IF n.mant = 0 THEN <<"0">>
  ELSE LET digits == padStart(NatToDigits(n.mant), n.scale + 1, <<"0">>)
           whole  == SubSeq(digits, 1, Len(digits) - n.scale)
           frac   == SubSeq(digits, Len(digits) - n.scale + 1, Len(digits))
       IN  (IF n.neg THEN <<"-">> ELSE <<>>)
           \o whole
           \o (IF n.scale > 0 THEN <<".">> \o frac ELSE <<>>)

----------------------------------------------------------------------------
(* JavaScript values: undefined, null, a string, or a number.  A number    *)
(* carries the text String(value) gives for it.                            *)

Undefined == [t |-> "undefined", s |-> <<>>, n |-> NaN]
Null == [t |-> "null", s |-> <<>>, n |-> NaN]
Str(chars) == [t |-> "str", s |-> chars, n |-> NaN]
Num(chars) == [t |-> "num", s |-> chars, n |-> parseFloat(chars)]

\* value === null || value === undefined
IsNullish(v) == v.t \in {"undefined", "null"}

\* !value
Falsy(v) ==
  \/ IsNullish(v)
  \/ v.t = "str" /\ v.s = <<>>
  \/ v.t = "num" /\ IsFalsyNumber(v.n)

\* String(value)
String(v) ==
  CASE v.t = "str" -> v.s
    [] v.t = "num" -> v.s
    [] v.t = "null" -> <<"n","u","l","l">>
    [] OTHER -> <<"u","n","d","e","f","i","n","e","d">>

\* the result of coerceNumber: null or a finite number
NullNumber == [isNull |-> TRUE, n |-> NaN]
SomeNumber(n) == [isNull |-> FALSE, n |-> n]

\* gemini.js coerceNumber
coerceNumber(value) ==
  IF IsNullish(value) \/ (value.t = "str" /\ value.s = <<>>)
    THEN NullNumber
    ELSE LET sanitized == ReplaceFirst(
                            KeepOnly(String(value), DigitSet \cup {".", ",", "-"}),
                            ",", ".")
             parsed    == parseFloat(sanitized)
         IN  IF isFinite(parsed) THEN SomeNumber(parsed) ELSE NullNumber


----------------------------------------------------------------------------
(* Date Resolver: expenseParser.js formatDateFromTimestamp.  Instants are  *)
(* in epoch seconds (message.timestamp); the code multiplies by 1000 and   *)
(* the Date arithmetic divides it out again.                               *)

\* Two decimal digits / four decimal digits of a number
Pad2(n) == <<DigitChars[((n \div 10) % 10) + 1], DigitChars[(n % 10) + 1]>>
Pad4(n) == Pad2(n \div 100) \o Pad2(n % 100)

\* Proleptic Gregorian calendar date of a day number counted from
\* 1970-01-01 (what Date and Intl compute for a fixed offset).
CivilFromDays(days) ==
  LET z   == days + 719468
      era == z \div 146097
      doe == z - era * 146097
      yoe == (doe - (doe \div 1460) + (doe \div 36524) - (doe \div 146096)) \div 365
      doy == doe - (365 * yoe + (yoe \div 4) - (yoe \div 100))
      mp  == (5 * doy + 2) \div 153
      d   == doy - ((153 * mp + 2) \div 5) + 1
      m   == IF mp < 10 THEN mp + 3 ELSE mp - 9
      y   == yoe + era * 400 + (IF m <= 2 THEN 1 ELSE 0)
  IN  [year |-> y, month |-> m, day |-> d]

\* DateAtOffset with month and day printed without zero padding
DateAtOffset_Unpadded(timestampSec, offsetMinutes) ==
  LET c == CivilFromDays((timestampSec + offsetMinutes * 60) \div 86400)
  IN  Pad4(c.year) \o <<"-">> \o NatToDigits(c.month) \o <<"-">>
      \o NatToDigits(c.day)

\* `${year}-${month}-${day}` / toISOString().slice(0, 10) of the instant
\* shifted by offsetMinutes
DateAtOffset(timestampSec, offsetMinutes) ==
  LET c == CivilFromDays((timestampSec + offsetMinutes * 60) \div 86400)
  IN  Pad4(c.year) \o <<"-">> \o Pad2(c.month) \o <<"-">> \o Pad2(c.day)

TZ_UTC == <<"U", "T", "C">>
TZ_Jakarta == <<"A", "s", "i", "a", "/", "J", "a", "k", "a", "r", "t", "a">>
TZ_UtcPlus7 == <<"U", "T", "C", "+", "7">>
TZ_GmtPlus0700 == <<"G", "M", "T", "+", "0", "7", ":", "0", "0">>
TZ_UtcMinus0530 == <<"u", "t", "c", "-", "5", ":", "3", "0">>
TZ_Mars == <<"M", "a", "r", "s", "/", "P", "h", "o", "b", "o", "s">>
TZ_UtcPlus0 == <<"U", "T", "C", "+", "0">>
TZ_GmtMinus0000 == <<"g", "m", "t", "-", "0", "0", ":", "0", "0">>
TZ_BadOffset == <<"U", "T", "C", "+", "7", ":", "5">>

\* The zones Intl.DateTimeFormat resolves, with their offset in minutes
\* (zones without daylight saving); any other specifier makes the
\* constructor throw a RangeError.
IntlZones == {TZ_UTC, TZ_Jakarta}
IntlOffset(timezone) == IF timezone = TZ_Jakarta THEN 420 ELSE 0

NoOffset == [isNull |-> TRUE, minutes |-> 0]
SomeOffset(m) == [isNull |-> FALSE, minutes |-> m]

\* parseOffsetTimezone accepting only the UTC prefix
parseOffsetTimezone_UtcOnly(value) ==
  IF value = <<>> THEN NoOffset
  ELSE
    LET v    == trim(value)
        rest == Drop(v, 4)
        nh   == IF PrefixLen(rest, DigitSet) > 2 THEN 2
                ELSE PrefixLen(rest, DigitSet)
        tail == Drop(rest, nh)
        hasMinutes == Len(tail) = 3 /\ tail[1] = ":"
                      /\ tail[2] \in DigitSet /\ tail[3] \in DigitSet
        matches ==
          /\ Len(v) >= 5
          /\ toUpperCase(SubSeq(v, 1, 3)) = <<"U","T","C">>
          /\ v[4] \in {"+", "-"}
          /\ nh >= 1
          /\ (tail = <<>> \/ hasMinutes)
    IN  IF ~matches THEN NoOffset
        ELSE LET sign    == IF v[4] = "-" THEN -1 ELSE 1
                 hours   == DigitsToNat(SubSeq(rest, 1, nh))
                 minutes == IF hasMinutes THEN DigitsToNat(Drop(tail, 1)) ELSE 0
             IN  SomeOffset(sign * (hours * 60 + minutes))

\* expenseParser.js parseOffsetTimezone:
\* /^(?:GMT|UTC)([+-])(\d{1,2})(?::(\d{2}))?$/i on value.trim()
parseOffsetTimezone(value) ==
  IF value = <<>> THEN NoOffset
  ELSE
    LET v    == trim(value)
        rest == Drop(v, 4)
        nh   == IF PrefixLen(rest, DigitSet) > 2 THEN 2
                ELSE PrefixLen(rest, DigitSet)
        tail == Drop(rest, nh)
        hasMinutes == Len(tail) = 3 /\ tail[1] = ":"
                      /\ tail[2] \in DigitSet /\ tail[3] \in DigitSet
        matches ==
          /\ Len(v) >= 5
          /\ toUpperCase(SubSeq(v, 1, 3)) \in {<<"G","M","T">>, <<"U","T","C">>}
          /\ v[4] \in {"+", "-"}
          /\ nh >= 1
          /\ (tail = <<>> \/ hasMinutes)
    IN  IF ~matches THEN NoOffset
        ELSE LET sign    == IF v[4] = "-" THEN -1 ELSE 1
                 hours   == DigitsToNat(SubSeq(rest, 1, nh))
                 minutes == IF hasMinutes THEN DigitsToNat(Drop(tail, 1)) ELSE 0
             IN  SomeOffset(sign * (hours * 60 + minutes))

\* formatDateFromTimestamp whose catch branch is keyed to the offset
\* strategy only: a specifier neither strategy resolves gets no date
formatDateFromTimestamp_NoUtcFallback(timestampSec, timezone) ==
  IF timezone \in IntlZones
    THEN DateAtOffset(timestampSec, IntlOffset(timezone))
    ELSE LET offsetMinutes == parseOffsetTimezone(timezone)
         IN  IF ~offsetMinutes.isNull
               THEN DateAtOffset(timestampSec, offsetMinutes.minutes)
               ELSE <<>>

\* expenseParser.js formatDateFromTimestamp
formatDateFromTimestamp(timestampSec, timezone) ==
  IF timezone \in IntlZones
    THEN DateAtOffset(timestampSec, IntlOffset(timezone))
    ELSE LET offsetMinutes == parseOffsetTimezone(timezone)
         IN  IF ~offsetMinutes.isNull
               THEN DateAtOffset(timestampSec, offsetMinutes.minutes)
               ELSE DateAtOffset(timestampSec, 0)

----------------------------------------------------------------------------
(* Regex Fallback Extractor: expenseParser.js                              *)

S_USD == <<"U", "S", "D">>
S_EUR == <<"E", "U", "R">>
S_GBP == <<"G", "B", "P">>
S_IDR == <<"I", "D", "R">>
S_General == <<"G", "e", "n", "e", "r", "a", "l">>
S_Expense == <<"E", "x", "p", "e", "n", "s", "e">>

\* expenseParser.js normalizeCurrency; currency is a JavaScript value
\* (undefined when the optional group did not take part in the match)
normalizeCurrency(currency, defaultCurrency) ==
  IF Falsy(currency) THEN defaultCurrency
  ELSE LET trimmed == toUpperCase(trim(currency.s))
       IN  CASE trimmed = <<"$">> -> S_USD
             [] trimmed = <<"€">> -> S_EUR
             [] trimmed = <<"£">> -> S_GBP
             [] Len(trimmed) = 3 -> trimmed
             [] OTHER -> defaultCurrency

NoMatch == [matched |-> FALSE, description |-> <<>>, amount |-> <<>>,
            currency |-> Undefined]

\* text.match(/^(?<description>[\p{L}\s]+?)\s*(?<amount>[0-9]+[\d.,]*)\s*
\*              (?<currency>[A-Za-z]{3}|[$€£])?/u)
\* The description is lazy: the shortest non-empty run of letters and white
\* space after which only white space precedes the first digit.
FallbackMatch(text) ==
  LET k == PrefixLen(text, LetterSet \cup SpaceSet)
  IN  IF ~(k >= 1 /\ k < Len(text) /\ text[k + 1] \in DigitSet) THEN NoMatch
      ELSE
        LET lead  == SubSeq(text, 1, k)
            j     == IF k - SuffixLen(lead, SpaceSet) >= 1
                       THEN k - SuffixLen(lead, SpaceSet) ELSE 1
            na    == PrefixLen(Drop(text, k), DigitSet \cup {".", ","})
            after == Drop(text, k + na)
            rest  == Drop(after, PrefixLen(after, SpaceSet))
            cur   == IF Len(rest) >= 3 /\ \A i \in 1..3 : rest[i] \in LetterSet
                       THEN Str(SubSeq(rest, 1, 3))
                     ELSE IF rest # <<>> /\ rest[1] \in {"$", "€", "£"}
                       THEN Str(<<rest[1]>>)
                     ELSE Undefined
        IN  [matched |-> TRUE, description |-> SubSeq(text, 1, j),
             amount |-> SubSeq(text, k + 1, k + na), currency |-> cur]

Failure(kind) == [ok |-> FALSE, error |-> kind]
Success(record) == [ok |-> TRUE, record |-> record]

\* expenseParser.js fallbackParseText; the returned object has no account
\* property (reading it gives undefined)
fallbackParseText(text, fallbackDate, defaultCurrency) ==
  LET match == IF text = <<>> THEN NoMatch ELSE FallbackMatch(text)
  IN  IF ~match.matched THEN Failure("fallback")
      ELSE Success([date        |-> Str(fallbackDate),
                    description |-> Str(trim(match.description)),
                    category    |-> Str(S_General),
                    amount      |-> parseFloat(RemoveAll(match.amount, ",")),
                    currency    |-> normalizeCurrency(match.currency,
                                                      defaultCurrency),
                    merchant    |-> Null,
                    account     |-> Undefined])

----------------------------------------------------------------------------
(* Model-Backed Extractor: gemini.js                                       *)

\* The raw text of a model reply is a string in which the character "@"
\* stands for the member list of a JSON object; members holds the values
\* of that member list (Undefined for a key that is not present).
Members(date, description, category, amount, currency, merchant, account) ==
  [date |-> date, description |-> description, category |-> category,
   amount |-> amount, currency |-> currency, merchant |-> merchant,
   account |-> account]

EmptyObject ==
  Members(Undefined, Undefined, Undefined, Undefined, Undefined, Undefined,
          Undefined)

\* JSON.parse of a slice: "{@}" is the object with the reply's members,
\* "{}" the empty object (white space between tokens allowed); anything
\* else is a SyntaxError.
JSONparse(jsonSlice, members) ==
  LET tokens == SelectSeq(jsonSlice, LAMBDA c : c \notin SpaceSet)
  IN  CASE tokens = <<"{", "@", "}">> -> Success(members)
        [] tokens = <<"{", "}">> -> Success(EmptyObject)
        [] OTHER -> Failure("syntax")

\* gemini.js cleanJsonResponse
cleanJsonResponse(raw, members) ==
  IF raw = <<>> THEN Failure("empty")
  ELSE LET start == indexOf(raw, "{")
           end   == lastIndexOf(raw, "}")
       IN  IF start = 0 \/ end = 0 THEN Failure("nojson")
           ELSE JSONparse(SubSeq(raw, start, end), members)

\* { ...defaults, ...raw } for one key
Spread(default, value) == IF value.t = "undefined" THEN default ELSE value

\* the date rewrite applied to every date that holds a separator
RewriteDate_AnySeparator(date) ==
  IF ~includes(date, "/") /\ ~includes(date, "-") THEN date
  ELSE LET parts == split(date, {"/", "-"})
           month == parts[1]
           day   == IF Len(parts) >= 2 THEN parts[2] ELSE <<>>
           year  == IF Len(parts) >= 3 THEN parts[3] ELSE <<>>
       IN  IF year # <<>> /\ month # <<>> /\ day # <<>>
             THEN padStart(year, 4, <<"2", "0">>) \o <<"-">>
                  \o padStart(month, 2, <<"0">>) \o <<"-">>
                  \o padStart(day, 2, <<"0">>)
             ELSE date

\* the date rewrite of normalizeResponse (lines 80-85) on a string date
RewriteDate(date) ==
  IF ~includes(date, "/") THEN date
  ELSE LET parts == split(date, {"/", "-"})
           month == parts[1]
           day   == IF Len(parts) >= 2 THEN parts[2] ELSE <<>>
           year  == IF Len(parts) >= 3 THEN parts[3] ELSE <<>>
       IN  IF year # <<>> /\ month # <<>> /\ day # <<>>
             THEN padStart(year, 4, <<"2", "0">>) \o <<"-">>
                  \o padStart(month, 2, <<"0">>) \o <<"-">>
                  \o padStart(day, 2, <<"0">>)
             ELSE date

\* the account step of normalizeResponse (lines 96-101)
NormalizeAccount(account) ==
  IF IsNullish(account) THEN account
  ELSE IF trim(String(account)) = <<>> THEN Null
  ELSE Str(trim(String(account)))

\* the currency step of normalizeResponse (lines 92-94 and 103)
NormalizeModelCurrency(currency, defaultCurrency) ==
  toUpperCase(trim(IF Falsy(currency) THEN defaultCurrency
                   ELSE String(currency)))

\* the amount step of normalizeResponse (lines 87-90): TRUE when it throws
AmountRejected(amount) == amount.isNull \/ IsFalsyNumber(amount.n)

\* normalizeResponse without the defaults for an empty description or
\* category (lines 105-111 left out)
normalizeResponse_NoTextDefaults(raw, fallbackDate, defaultCurrency) ==
  LET date0  == Spread(Str(fallbackDate), raw.date)
      date1  == IF Falsy(date0) THEN Str(fallbackDate) ELSE date0
      amount == coerceNumber(Spread(Null, raw.amount))
  IN  IF date1.t # "str" THEN Failure("type")
      ELSE IF AmountRejected(amount) THEN Failure("amount")
      ELSE Success(
        [date        |-> Str(RewriteDate(date1.s)),
         description |-> Spread(Str(S_Expense), raw.description),
         category    |-> Spread(Str(S_General), raw.category),
         amount      |-> amount.n,
         currency    |-> NormalizeModelCurrency(
                           Spread(Str(defaultCurrency), raw.currency),
                           defaultCurrency),
         merchant    |-> Spread(Null, raw.merchant),
         account     |-> NormalizeAccount(Spread(Null, raw.account))])

\* gemini.js GeminiService.normalizeResponse
normalizeResponse(raw, fallbackDate, defaultCurrency) ==
  LET date0       == Spread(Str(fallbackDate), raw.date)
      date1       == IF Falsy(date0) THEN Str(fallbackDate) ELSE date0
      amount      == coerceNumber(Spread(Null, raw.amount))
      description == Spread(Str(S_Expense), raw.description)
      category    == Spread(Str(S_General), raw.category)
  IN  IF date1.t # "str" THEN Failure("type")
      ELSE IF AmountRejected(amount) THEN Failure("amount")
      ELSE Success(
        [date        |-> Str(RewriteDate(date1.s)),
         description |-> IF Falsy(description) THEN Str(S_Expense)
                         ELSE description,
         category    |-> IF Falsy(category) THEN Str(S_General) ELSE category,
         amount      |-> amount.n,
         currency    |-> NormalizeModelCurrency(
                           Spread(Str(defaultCurrency), raw.currency),
                           defaultCurrency),
         merchant    |-> Spread(Null, raw.merchant),
         account     |-> NormalizeAccount(Spread(Null, raw.account))])

\* A call of the model: generateContent rejects, or resolves with a text.
Rejected == [rejected |-> TRUE, raw |-> <<>>, members |-> EmptyObject]
Resolved(raw, members) == [rejected |-> FALSE, raw |-> raw, members |-> members]

\* gemini.js parseTextExpense / parseImageExpense after the call has
\* settled (both end in the same two lines)
ModelStage(reply, fallbackDate, defaultCurrency) ==
  IF reply.rejected THEN Failure("invoke")
  ELSE LET parsed == cleanJsonResponse(reply.raw, reply.members)
       IN  IF ~parsed.ok THEN parsed
           ELSE normalizeResponse(parsed.record, fallbackDate, defaultCurrency)

----------------------------------------------------------------------------
(* Message intake: index.js                                                *)

\* [a-z0-9 _-] under the i flag
DirectiveChars == LetterSet \cup DigitSet \cup {" ", "_", "-"}

\* /\bacc:([a-z0-9 _-]+)/i matches at position i of s
DirectiveAt(s, i) ==
  /\ i + 4 <= Len(s)
  /\ toUpperCase(SubSeq(s, i, i + 3)) = <<"A", "C", "C", ":">>
  /\ (i = 1 \/ s[i - 1] \notin WordSet)
  /\ s[i + 4] \in DirectiveChars

\* position of the first match, 0 when there is none
DirectivePos(s) ==
  IF \E i \in 1..Len(s) : DirectiveAt(s, i)
    THEN CHOOSE i \in 1..Len(s) :
           DirectiveAt(s, i) /\ \A j \in 1..(i - 1) : ~DirectiveAt(s, j)
    ELSE 0

\* length of the capture group of the match at position i
DirectiveLen(s, i) == PrefixLen(Drop(s, i + 3), DirectiveChars)

\* s.replace(ACCOUNT_OVERRIDE_STRIP_REGEX, '')
RECURSIVE StripDirectives(_)
StripDirectives(s) ==
  LET i == DirectivePos(s)
  IN  IF i = 0 THEN s
      ELSE SubSeq(s, 1, i - 1)
           \o StripDirectives(Drop(s, i + 3 + DirectiveLen(s, i)))

\* s.replace(/\s{2,}/g, ' ')
\* every run of two or more white-space characters becomes one space: the
\* characters kept are those outside a run and the first of each run
CollapseSpaces(s) ==
  LET InSpace(i) == i \in 1..Len(s) /\ s[i] \in SpaceSet
      kept == SelectSeq([i \in 1..Len(s) |-> i],
                        LAMBDA i : ~InSpace(i) \/ ~InSpace(i - 1))
  IN  [k \in 1..Len(kept) |->
         IF InSpace(kept[k]) /\ InSpace(kept[k] + 1) THEN " "
         ELSE s[kept[k]]]

\* index.js extractAccountDirective
extractAccountDirective(sourceText) ==
  IF sourceText = <<>> THEN [accountOverride |-> Null, cleanedText |-> <<>>]
  ELSE LET i        == DirectivePos(sourceText)
           captured == IF i = 0 THEN <<>>
                       ELSE trim(SubSeq(sourceText, i + 4,
                                        i + 3 + DirectiveLen(sourceText, i)))
       IN  [accountOverride |-> IF captured = <<>> THEN Null
                                ELSE Str(captured),
            cleanedText |-> trim(CollapseSpaces(StripDirectives(sourceText)))]

\* the envelope values index.js compares
Wid_Self == <<"m", "e", "@", "c", ".", "u", "s">>
Wid_Friend == <<"f", "r", "i", "e", "n", "d", "@", "c", ".", "u", "s">>
Wid_Group == <<"t", "e", "a", "m", "@", "g", ".", "u", "s">>

\* index.js refreshSelfId: the new value of selfId, given
\* client.info?.wid?._serialized (<<>> while it is not available)
refreshSelfId(selfId, wid) ==
  IF wid # <<>> /\ wid # selfId THEN wid ELSE selfId

\* index.js isMessageFromSelf; idFromMe is "true", "false", or "none" when
\* message.id.fromMe is not a boolean, and serializedTrue says whether
\* message.id._serialized starts with 'true_'
isMessageFromSelf(message, selfId) ==
  IF message.fromMe THEN TRUE
  ELSE IF message.idFromMe = "true" THEN TRUE
  ELSE IF message.idFromMe = "none" /\ message.serializedTrue THEN TRUE
  ELSE IF selfId # <<>>
    THEN \/ message.author # <<>> /\ message.author = selfId
         \/ message.author = <<>> /\ message.from = selfId
  ELSE FALSE

\* a filter that forgets the allow list
shouldProcessMessage_IgnoresAllowList(message, selfId, config) ==
  ~(config.selfMessagesOnly /\ ~isMessageFromSelf(message, selfId))

\* index.js shouldProcessMessage
shouldProcessMessage(message, selfId, config) ==
  IF config.selfMessagesOnly /\ ~isMessageFromSelf(message, selfId) THEN FALSE
  ELSE IF Len(config.allowedChatIds) > 0
    THEN \E i \in 1..Len(config.allowedChatIds) :
           config.allowedChatIds[i] = message.from
  ELSE TRUE

\* const supportedTypes = ["chat", "image"]
supportedTypes == {"chat", "image"}

NoMedia == [isNull |-> TRUE, mimeType |-> <<>>, hasData |-> FALSE]
NoDownload == NoMedia
Download(mimeType, hasData) ==
  [isNull |-> FALSE, mimeType |-> mimeType, hasData |-> hasData]

MIME_Jpeg == <<"i", "m", "a", "g", "e", "/", "j", "p", "e", "g">>
MIME_Pdf == <<"a", "p", "p", "l", "i", "c", "a", "t", "i", "o", "n", "/",
              "p", "d", "f">>

\* index.js extractMedia; downloaded is what message.downloadMedia() gave
extractMedia(hasMedia, downloaded) ==
  IF ~hasMedia THEN NoMedia
  ELSE IF downloaded.isNull
          \/ ~(Len(downloaded.mimeType) >= 6
               /\ SubSeq(downloaded.mimeType, 1, 6)
                    = <<"i", "m", "a", "g", "e", "/">>)
          \/ ~downloaded.hasData
    THEN NoMedia
  ELSE downloaded

----------------------------------------------------------------------------
(* Extraction Orchestrator: expenseParser.js ExpenseParser.parse           *)

NoResult == Failure("none")

\* parse rethrowing the model error after an image failure even when text
\* is present (the "if (text)" branch left out)
parse_ImageFailureRethrows(text, media, fallbackDate, defaultCurrency, reply) ==
  LET model    == ModelStage(reply, fallbackDate, defaultCurrency)
      fallback == fallbackParseText(text, fallbackDate, defaultCurrency)
  IN  IF ~media.isNull
        THEN [model |-> model, fallbackRan |-> FALSE, result |-> model]
        ELSE IF model.ok
               THEN [model |-> model, fallbackRan |-> FALSE, result |-> model]
             ELSE [model |-> model, fallbackRan |-> TRUE, result |-> fallback]

\* parse running the regex fallback after an image failure whatever the
\* text (the "if (text)" test left out)
parse_ImageAlwaysFallsBack(text, media, fallbackDate, defaultCurrency, reply) ==
  LET model    == ModelStage(reply, fallbackDate, defaultCurrency)
      fallback == fallbackParseText(text, fallbackDate, defaultCurrency)
  IN  IF model.ok
        THEN [model |-> model, fallbackRan |-> FALSE, result |-> model]
        ELSE [model |-> model, fallbackRan |-> TRUE, result |-> fallback]

\* parse without the regex fallback on the text-only path
parse_TextFailureRethrows(text, media, fallbackDate, defaultCurrency, reply) ==
  LET model    == ModelStage(reply, fallbackDate, defaultCurrency)
      fallback == fallbackParseText(text, fallbackDate, defaultCurrency)
  IN  IF ~media.isNull /\ ~model.ok /\ text # <<>>
        THEN [model |-> model, fallbackRan |-> TRUE, result |-> fallback]
        ELSE [model |-> model, fallbackRan |-> FALSE, result |-> model]

\* parse falling back only when the model call itself failed
parse_FallbackOnInvokeOnly(text, media, fallbackDate, defaultCurrency, reply) ==
  LET model    == ModelStage(reply, fallbackDate, defaultCurrency)
      fallback == fallbackParseText(text, fallbackDate, defaultCurrency)
  IN  IF ~model.ok /\ model.error = "invoke" /\ (media.isNull \/ text # <<>>)
        THEN [model |-> model, fallbackRan |-> TRUE, result |-> fallback]
        ELSE [model |-> model, fallbackRan |-> FALSE, result |-> model]

\* ExpenseParser.parse once the model call has settled.  accountOverride
\* and rawText are passed by handleMessage but are not parameters of parse.
\* Gives the outcome of the model stage, whether the regex fallback ran,
\* and what parse returns (ok) or throws (~ok).
parse(text, media, fallbackDate, defaultCurrency, reply) ==
  LET model    == ModelStage(reply, fallbackDate, defaultCurrency)
      fallback == fallbackParseText(text, fallbackDate, defaultCurrency)
  IN  IF ~media.isNull
        THEN IF model.ok
               THEN [model |-> model, fallbackRan |-> FALSE, result |-> model]
             ELSE IF text # <<>>
               THEN [model |-> model, fallbackRan |-> TRUE, result |-> fallback]
             ELSE [model |-> model, fallbackRan |-> FALSE, result |-> model]
        ELSE IF model.ok
               THEN [model |-> model, fallbackRan |-> FALSE, result |-> model]
             ELSE [model |-> model, fallbackRan |-> TRUE, result |-> fallback]

----------------------------------------------------------------------------
(* Ledger sink (sheets.js) and the confirmation text (index.js).           *)

\* new Date().toISOString() at the time of the append
Clock_Now == <<"2", "0", "2", "4", "-", "0", "1", "-", "0", "2", "T",
               "0", "3", ":", "0", "4", ":", "0", "5", ".", "0", "0", "0", "Z">>

\* a number as a JavaScript value
NumValue(n) == [t |-> "num", s |-> NumberToString(n), n |-> n]

\* note ? `${expense.description} - ${note}` : expense.description
RowDescription(expense, metadataNote) ==
  LET note == trim(metadataNote)
  IN  IF note # <<>>
        THEN Str(String(expense.description) \o <<" ", "-", " ">> \o note)
        ELSE expense.description

\* the ten values both sinks build for an expense: timestamp, date,
\* category, description, amount, '', merchant || '', '', '', ''
RowValues(expense, metadataNote) ==
  <<Str(Clock_Now),
    expense.date,
    expense.category,
    RowDescription(expense, metadataNote),
    NumValue(expense.amount),
    Str(<<>>),
    IF Falsy(expense.merchant) THEN Str(<<>>) ELSE expense.merchant,
    Str(<<>>),
    Str(<<>>),
    Str(<<>>)>>

\* stringValue.replace(/"/g, '""')
DoubleQuotes(s) ==
  LET RECURSIVE go(_)
      go(i) == IF i > Len(s) THEN <<>>
               ELSE (IF s[i] = "\"" THEN <<"\"", "\"">> ELSE <<s[i]>>) \o go(i + 1)
  IN  go(1)

\* the map callback of appendToCsv: '' for null and undefined, the text
\* of the value otherwise, quoted when it holds a comma or a double quote
CsvCell(value) ==
  IF IsNullish(value) THEN <<>>
  ELSE LET stringValue == String(value)
       IN  IF includes(stringValue, ",") \/ includes(stringValue, "\"")
             THEN <<"\"">> \o DoubleQuotes(stringValue) \o <<"\"">>
             ELSE stringValue

\* cells.join(',')
JoinCells(cells) ==
  LET RECURSIVE go(_)
      go(i) == IF i > Len(cells) THEN <<>>
               ELSE (IF i > 1 THEN <<",">> ELSE <<>>) \o cells[i] \o go(i + 1)
  IN  go(1)

\* appendToGoogleSheet: the row of values handed to values.append
appendToGoogleSheet(expense, metadataNote) ==
  [target |-> "google",
   columns |-> RowValues(expense, metadataNote),
   line |-> <<>>]

\* appendToCsv: the cells after the map, and the line appended to the file
appendToCsv(expense, metadataNote) ==
  LET values == RowValues(expense, metadataNote)
      cells  == [i \in 1..Len(values) |-> CsvCell(values[i])]
  IN  [target |-> "local",
       columns |-> [i \in 1..Len(cells) |-> Str(cells[i])],
       line |-> JoinCells(cells) \o <<"\n">>]

\* SheetsService.appendExpense: the row written when the append succeeds
appendExpense(mode, expense, metadataNote) ==
  IF mode = "google"
    THEN appendToGoogleSheet(expense, metadataNote)
    ELSE appendToCsv(expense, metadataNote)

\* Intl.NumberFormat accepts a currency code of three ASCII letters and
\* throws RangeError for anything else
IsWellFormedCurrencyCode(currency) ==
  Len(currency) = 3 /\ \A i \in 1..3 : currency[i] \in LetterSet

\* buildSuccessReply: throws when the formatter rejects the currency,
\* otherwise the confirmation, given by the values its template holds
buildSuccessReply(expense) ==
  IF ~IsWellFormedCurrencyCode(expense.currency)
    THEN Failure("RangeError")
    ELSE Success([kind |-> "confirmation",
                  description |-> String(expense.description),
                  amount |-> expense.amount,
                  currency |-> expense.currency,
                  date |-> String(expense.date),
                  category |-> String(expense.category)])

\* the fixed text of the catch branch
FailureReply ==
  [kind |-> "failure", description |-> <<>>, amount |-> NaN,
   currency |-> <<>>, date |-> <<>>, category |-> <<>>]

\* digits in groups of three, as en-US prints them
RECURSIVE GroupDigits(_)
GroupDigits(digits) ==
  IF Len(digits) <= 3 THEN digits
  ELSE GroupDigits(SubSeq(digits, 1, Len(digits) - 3))
       \o <<",">> \o SubSeq(digits, Len(digits) - 2, Len(digits))

\* U+201C, the third character of the separator in the template as the
\* source file holds it; it stands here as a character of its own that
\* no class of the regular expressions contains
LDQUO == "«"

\* U+00A0, the no-break space
NBSP == " "

\* the en-US symbol of a currency: its sign, or the code and a no-break space
CurrencySymbol(currency) ==
  IF currency = S_USD THEN <<"$">>
  ELSE IF currency = S_EUR THEN <<"€">>
  ELSE IF currency = S_GBP THEN <<"£">>
  ELSE currency \o <<NBSP>>

\* Intl.NumberFormat("en-US", {style: "currency"}).format for a currency of
\* two minor digits and an amount of at most two fraction digits; rounding of
\* longer fractions and currencies of other minor units are outside the
\* modelled replies
FormatCurrency(currency, amount) ==
  IF amount.nan THEN CurrencySymbol(currency) \o <<"N", "a", "N">>
  ELSE LET digits == padStart(NatToDigits(amount.mant), amount.scale + 1, <<"0">>)
           whole  == SubSeq(digits, 1, Len(digits) - amount.scale)
           frac   == SubSeq(digits, Len(digits) - amount.scale + 1, Len(digits))
       IN  (IF amount.neg /\ amount.mant # 0 THEN <<"-">> ELSE <<>>)
           \o CurrencySymbol(currency)
           \o GroupDigits(whole)
           \o <<".">>
           \o SubSeq(frac \o <<"0", "0">>, 1, 2)

\* the text message.reply is given: the template of buildSuccessReply
\* filled in, or the fixed text of the catch branch
ReplyText(reply) ==
  IF reply.kind = "failure"
    THEN <<"C", "o", "u", "l", "d", " ", "n", "o", "t", " ", "r", "e",
    "c", "o", "r", "d", " ", "e", "x", "p", "e", "n", "s", "e",
    ".", " ", "P", "l", "e", "a", "s", "e", " ", "t", "r", "y",
    " ", "a", "g", "a", "i", "n", " ", "o", "r", " ", "s", "p",
    "e", "c", "i", "f", "y", " ", "a", "m", "o", "u", "n", "t",
    " ", "a", "n", "d", " ", "d", "e", "s", "c", "r", "i", "p",
    "t", "i", "o", "n", " ", "i", "n", " ", "t", "e", "x", "t",
    ".">>
    ELSE <<"R", "e", "c", "o", "r", "d", "e", "d", ":", " ">>
         \o reply.description
         \o <<" ", "â", "€", LDQUO, " ">>
         \o FormatCurrency(reply.currency, reply.amount)
         \o <<" ", "o", "n", " ">>
         \o reply.date
         \o <<".", " ", "C", "a", "t", "e", "g", "o", "r", "y", ":", " ">>
         \o reply.category
         \o <<".">>

----------------------------------------------------------------------------
(* Inputs: message bodies, instants, downloads and model replies.          *)

Body_Lunch == <<"L", "u", "n", "c", "h", " ", "1", "2", ".", "5", "0", " ",
                "U", "S", "D">>
Body_Zero == <<"L", "u", "n", "c", "h", " ", "0">>
Body_Coffee == <<"C", "o", "f", "f", "e", "e", " ", "3", ",", "5", "0", " ", "€">>
Body_Hello == <<"h", "e", "l", "l", "o">>
Body_Override == <<"L", "u", "n", "c", "h", " ", "1", "2", " ",
                   "a", "c", "c", ":", "G", "o", "P", "a", "y">>
Body_OnlyDirective == <<"a", "c", "c", ":", "g", "o", "p", "a", "y">>
Body_DigitFirst == <<"1", "2", " ", "L", "u", "n", "c", "h">>
Body_Padded == <<" ", "B", "u", "s", " ", " ", "5", "0", "0", "0", " ">>
Body_Dollar == <<"T", "e", "a", " ", "7", " ", "$">>
Body_Account == <<"B", "u", "s", " ", "g", "o", "p", "a", "y", " ", "5", " ",
                  "a", "c", "c", ":", "o", "v", "o">>

Bodies == {<<>>, Body_Lunch, Body_Zero, Body_Coffee, Body_Hello,
           Body_Override, Body_OnlyDirective, Body_DigitFirst, Body_Padded,
           Body_Dollar, Body_Account}

\* 1970-01-01T00:00:01Z, 2023-12-31T23:59:59Z, 2024-02-29T23:59:59Z,
\* 2024-03-16T23:59:59Z, 2024-03-17T00:00:00Z, 2024-03-17T17:00:00Z
Timestamps == {1, 1704067199, 1709251199, 1710633599, 1710633600, 1710694800}

\* 2024-01-01T17:00:00Z
ParserTimestamps == {1704128400}

Downloads == {NoDownload, Download(MIME_Jpeg, TRUE), Download(MIME_Pdf, TRUE),
              Download(MIME_Jpeg, FALSE)}

Timezones == {TZ_UTC, TZ_Jakarta, TZ_UtcPlus7, TZ_GmtPlus0700,
              TZ_UtcMinus0530, TZ_Mars, TZ_UtcPlus0, TZ_GmtMinus0000,
              TZ_BadOffset}

\* the timezone specifiers the extraction pipeline is explored under
ParserTimezones == {TZ_UTC, TZ_UtcPlus7}

DefaultCurrencies == {S_USD, S_IDR}

D_Iso == <<"2", "0", "2", "4", "-", "0", "3", "-", "1", "7">>
D_Slash == <<"0", "3", "/", "1", "7", "/", "2", "0", "2", "4">>
D_SlashShort == <<"3", "/", "1", "7", "/", "2", "4">>
D_Dash == <<"0", "3", "-", "1", "7", "-", "2", "0", "2", "4">>
D_Free == <<"M", "a", "r", "c", "h", " ", "1", "7">>
D_YearFirst == <<"2", "0", "2", "4", "/", "0", "3", "/", "1", "7">>
D_TwoParts == <<"3", "/", "1", "7">>

S_Lunch == <<"L", "u", "n", "c", "h">>
S_Food == <<"F", "o", "o", "d">>
S_Warung == <<"W", "a", "r", "u", "n", "g">>

\* the closed account vocabulary of the prompt (gemini.js line 59)
CanonicalAccounts ==
  {<<"c", "a", "s", "h">>,
   <<"g", "o", "p", "a", "y">>,
   <<"s", "h", "o", "p", "e", "e", "p", "a", "y">>,
   <<"i", "s", "a", "k", "u">>,
   <<"b", "c", "a">>,
   <<"f", "l", "a", "z", "z", " ", "e", "m", "o", "n", "e", "y">>,
   <<"s", "u", "p", "e", "r", "b", "a", "n", "k">>,
   <<"j", "a", "g", "o", " ", "c", "l", "o", "u", "d", "t", "h", "i", "n", "g", "y">>}

A_Cash == <<"c", "a", "s", "h">>
A_Gopay == <<"g", "o", "p", "a", "y">>
A_Paypal == <<"p", "a", "y", "p", "a", "l">>

\* a reply already in canonical form
CanonicalMembers ==
  Members(Str(D_Iso), Str(S_Lunch), Str(S_Food), Num(<<"1", "2", ".", "5">>),
          Str(S_USD), Null, Str(A_Cash))

ReplyDates ==
  {Undefined, Null, Str(<<>>), Str(D_Slash), Str(D_SlashShort), Str(D_Dash),
   Str(D_Free), Str(D_YearFirst), Str(D_TwoParts),
   Num(<<"2", "0", "2", "4", "0", "3", "1", "7">>)}

ReplyAmounts ==
  {Undefined, Null, Str(<<>>), Num(<<"0">>), Num(<<"-", "5">>),
   Str(<<"a", "b", "c">>), Str(<<"$", "0", ".", "0", "0">>),
   Str(<<"1", "2", ",", "5", "0">>),
   Str(<<"R", "p", " ", "2", "5", ".", "0", "0", "0">>), Str(<<"-", "3">>)}

ReplyCurrencies ==
  {Undefined, Null, Str(<<>>), Str(<<"u", "s", "d">>),
   Str(<<" ", "e", "u", "r", " ">>), Str(<<" ", " ">>),
   Str(<<"R", "u", "p", "i", "a", "h">>), Str(<<"$">>)}

ReplyTexts == {Undefined, Null, Str(<<>>), Str(<<" ">>)}

ReplyAccounts ==
  {Undefined, Null, Str(<<>>), Str(<<" ", " ">>),
   Str(<<" ", "G", "o", "P", "a", "y", " ">>), Str(A_Gopay), Str(A_Paypal)}

\* member lists: the canonical reply with one member varied
ReplyMembers ==
  {CanonicalMembers}
  \cup {[CanonicalMembers EXCEPT !.date = v] : v \in ReplyDates}
  \cup {[CanonicalMembers EXCEPT !.amount = v] : v \in ReplyAmounts}
  \cup {[CanonicalMembers EXCEPT !.currency = v] : v \in ReplyCurrencies}
  \cup {[CanonicalMembers EXCEPT !.description = v] : v \in ReplyTexts}
  \cup {[CanonicalMembers EXCEPT !.category = v] : v \in ReplyTexts}
  \cup {[CanonicalMembers EXCEPT !.merchant = v] : v \in {Str(S_Warung)}}
  \cup {[CanonicalMembers EXCEPT !.account = v] : v \in ReplyAccounts}

Raw_Object == <<"{", "@", "}">>
Raw_Wrapped == <<"H", "e", "r", "e", ":", " ", "{", " ", "@", " ", "}", " ", "o", "k">>
Raw_NoBrace == <<"S", "o", "r", "r", "y">>
Raw_Unclosed == <<"{", "@">>
Raw_Reversed == <<"}", "@", "{">>
Raw_Twice == <<"{", "@", "}", "{", "@", "}">>
Raw_EmptyObject == <<"{", "}">>

Replies ==
  {Rejected}
  \cup {Resolved(Raw_Object, m) : m \in ReplyMembers}
  \cup {Resolved(r, CanonicalMembers) :
          r \in {<<>>, Raw_Wrapped, Raw_NoBrace, Raw_Unclosed, Raw_Reversed,
                 Raw_Twice, Raw_EmptyObject}}

\* bodies and replies of the date resolver's exploration
DateBodies == {<<>>, Body_Lunch}
DateReplies == {Rejected, Resolved(Raw_Object, CanonicalMembers)}

\* events as whatsapp-web.js delivers them; sender is who wrote the
\* message, which the handler never reads
Envelope(sender, from, author, fromMe, idFromMe, serializedTrue, type) ==
  [sender |-> sender, from |-> from, author |-> author, fromMe |-> fromMe,
   idFromMe |-> idFromMe, serializedTrue |-> serializedTrue, type |-> type]

E_Self == Envelope(Wid_Self, Wid_Self, <<>>, TRUE, "true", TRUE, "chat")
E_SelfImage == Envelope(Wid_Self, Wid_Self, <<>>, TRUE, "true", TRUE, "image")
E_SelfSticker ==
  Envelope(Wid_Self, Wid_Self, <<>>, TRUE, "true", TRUE, "sticker")
E_SelfInGroup ==
  Envelope(Wid_Self, Wid_Group, Wid_Self, TRUE, "true", TRUE, "chat")
E_SelfIdOnly == Envelope(Wid_Self, Wid_Self, <<>>, FALSE, "true", TRUE, "chat")
E_SelfSerializedOnly ==
  Envelope(Wid_Self, Wid_Self, <<>>, FALSE, "none", TRUE, "chat")
E_SelfAuthorOnly ==
  Envelope(Wid_Self, Wid_Group, Wid_Self, FALSE, "none", FALSE, "chat")
E_SelfChatOnly ==
  Envelope(Wid_Self, Wid_Self, <<>>, FALSE, "none", FALSE, "chat")
E_Friend ==
  Envelope(Wid_Friend, Wid_Friend, <<>>, FALSE, "false", FALSE, "chat")
E_FriendInGroup ==
  Envelope(Wid_Friend, Wid_Group, Wid_Friend, FALSE, "false", FALSE, "image")

Envelopes == {E_Self, E_SelfImage, E_SelfSticker, E_SelfInGroup, E_SelfIdOnly,
              E_SelfSerializedOnly, E_SelfAuthorOnly, E_SelfChatOnly,
              E_Friend, E_FriendInGroup}

\* the envelopes of the extraction exploration
ParserEnvelopes == {E_Self, E_Friend}

\* values of ALLOWED_CHAT_IDS
AllowLists == {<<>>, <<Wid_Friend>>, <<Wid_Self, Wid_Group>>}

\* client.info?.wid?._serialized: not yet available, or the account
ClientWids == {<<>>, Wid_Self}

\* bodies of the listener's exploration
ListenerBodies == {Body_Hello, Body_Lunch}

\* how many of its own replies in a row the listener is followed through
MaxEchoDepth == 2


----------------------------------------------------------------------------
(* The handling of one message_create event.                               *)

VARIABLES
  config,          \* config.defaults and config.whatsapp, fixed at startup
  mode,            \* SheetsService.mode, fixed at construction
  selfId,          \* the module-level selfId of index.js (<<>> for null)
  pc,              \* where handleMessage stands
  message,         \* the event: envelope, body, hasMedia, timestamp (seconds)
  media,           \* result of extractMedia
  rawText,         \* message.body.trim()
  accountOverride, \* extractAccountDirective(rawText).accountOverride
  parsingText,     \* extractAccountDirective(rawText).cleanedText
  fallbackDate,    \* computed by parse before the model call
  modelVariant,    \* which model entry point parse called
  modelReply,      \* the settled model call
  outcome,         \* what parse did: model stage, fallbackRan, result
  stages,          \* the extractor stages this parse invoked, in order
  calls,           \* the calls this handleMessage awaited, in order
  ledger,          \* the rows the sink wrote for this message
  replies,         \* the texts handed to message.reply for this message
  delivered,       \* those of them whose message.reply resolved
  chain,           \* appends and replies of the handlings that led here
  csvFile,         \* the CSV log: whether it exists, and its lines
  csvCall,         \* the appendToCsv calls in flight
  invocation,      \* the ExpenseParser.parse invocations in flight
  started          \* the order in which those invocations started

\* the variables of one handleMessage
handlerVars == <<config, mode, selfId, pc, message, media, rawText,
                 accountOverride, parsingText, fallbackDate, modelVariant,
                 modelReply, outcome, stages, calls, ledger, replies,
                 delivered, chain>>

\* the variables of concurrent appendToCsv calls
csvVars == <<csvFile, csvCall>>

\* the variables of concurrent parse invocations
parseVars == <<invocation, started>>

vars == <<handlerVars, csvVars, parseVars>>

NoMessage ==
  [sender |-> <<>>, from |-> <<>>, author |-> <<>>, fromMe |-> FALSE,
   idFromMe |-> "none",
   serializedTrue |-> FALSE, type |-> "chat",
   body |-> <<>>, hasMedia |-> FALSE, timestamp |-> 0]
NoOutcome == [model |-> NoResult, fallbackRan |-> FALSE, result |-> NoResult]
NoChain == [depth |-> 0, appends |-> 0, replies |-> 0]
NoFile == [exists |-> FALSE, lines |-> <<>>, headerWrites |-> 0]

\* no appendToCsv call is in flight and the log does not exist
CsvIdle == csvFile = NoFile /\ csvCall = <<>>

\* no parse invocation is in flight
ParseIdle == invocation = <<>> /\ started = <<>>

\* the state of an idle handler with the given configuration
HandlerIdle(configs, modes) ==
  /\ config \in configs
  /\ mode \in modes
  /\ selfId = <<>>
  /\ pc = "idle"
  /\ message = NoMessage
  /\ media = NoMedia
  /\ rawText = <<>>
  /\ accountOverride = Null
  /\ parsingText = <<>>
  /\ fallbackDate = <<>>
  /\ modelVariant = "none"
  /\ modelReply = Rejected
  /\ outcome = NoOutcome
  /\ stages = <<>>
  /\ calls = <<>>
  /\ ledger = <<>>
  /\ replies = <<>>
  /\ delivered = <<>>
  /\ chain = NoChain

\* the state of an idle process with the given configuration
Idle(configs, modes) ==
  HandlerIdle(configs, modes) /\ CsvIdle /\ ParseIdle

SheetsModes == {"google", "local"}

Init ==
  Idle([defaultCurrency : DefaultCurrencies, timezone : ParserTimezones,
        replyEnabled : BOOLEAN, selfMessagesOnly : {TRUE},
        allowedChatIds : {<<>>}],
       SheetsModes)

\* handleMessage from its start to its first suspension: refreshSelfId,
\* the filters of shouldProcessMessage and the type filter; a message that
\* passes suspends in extractMedia, any other makes the handler return
HandleMessageStarts(msg, wid) ==
  LET self     == refreshSelfId(selfId, wid)
      accepted == shouldProcessMessage(msg, self, config)
                  /\ msg.type \in supportedTypes
  IN  /\ selfId' = self
      /\ message' = msg
      /\ pc' = IF accepted THEN "extractMedia" ELSE "skipped"
      /\ calls' = IF accepted THEN <<"extractMedia">> ELSE <<>>
      /\ media' = NoMedia
      /\ rawText' = <<>>
      /\ accountOverride' = Null
      /\ parsingText' = <<>>
      /\ fallbackDate' = <<>>
      /\ modelVariant' = "none"
      /\ modelReply' = Rejected
      /\ outcome' = NoOutcome
      /\ stages' = <<>>
      /\ ledger' = <<>>
      /\ replies' = <<>>
      /\ delivered' = <<>>

\* client.on('message_create') for a message somebody wrote
MessageCreate(envelope, body, hasMedia, timestamp, wid) ==
  /\ pc = "idle"
  /\ HandleMessageStarts(
       [sender |-> envelope.sender, from |-> envelope.from,
        author |-> envelope.author, fromMe |-> envelope.fromMe,
        idFromMe |-> envelope.idFromMe,
        serializedTrue |-> envelope.serializedTrue, type |-> envelope.type,
        body |-> body, hasMedia |-> hasMedia, timestamp |-> timestamp],
       wid)
  /\ chain' = NoChain
  /\ UNCHANGED <<config, mode, csvVars, parseVars>>

\* client.on('message_create') for a reply the bot itself has sent: the
\* event carries the reply text as body and comes from the logged-in account
ReplySurfaces ==
  /\ pc = "handled"
  /\ chain.depth < MaxEchoDepth
  /\ \E i \in DOMAIN delivered :
       HandleMessageStarts(
            [sender |-> Wid_Self, from |-> Wid_Self, author |-> <<>>,
             fromMe |-> TRUE,
             idFromMe |-> "true", serializedTrue |-> TRUE, type |-> "chat",
             body |-> ReplyText(delivered[i]), hasMedia |-> FALSE,
             timestamp |-> message.timestamp],
            Wid_Self)
  /\ chain' = [depth   |-> chain.depth + 1,
               appends |-> chain.appends + Len(ledger),
               replies |-> chain.replies + Len(delivered)]
  /\ UNCHANGED <<config, mode, csvVars, parseVars>>

\* extractMedia settles; handleMessage strips the directive and calls
\* parse, which computes the fallback date and suspends in the model call
ExtractMedia(downloaded) ==
  /\ pc = "extractMedia"
  /\ (~message.hasMedia => downloaded = NoDownload)
  /\ LET directive == extractAccountDirective(trim(message.body))
     IN  /\ media' = extractMedia(message.hasMedia, downloaded)
         /\ rawText' = trim(message.body)
         /\ accountOverride' = directive.accountOverride
         /\ parsingText' = directive.cleanedText
         /\ fallbackDate' = formatDateFromTimestamp(message.timestamp,
                                                    config.timezone)
         /\ modelVariant' = IF media'.isNull THEN "text" ELSE "image"
  /\ stages' = <<IF media'.isNull THEN "parseTextExpense"
                 ELSE "parseImageExpense">>
  /\ pc' = "awaitModel"
  /\ calls' = Append(calls, "parse")
  /\ UNCHANGED <<config, mode, selfId, message, modelReply, outcome, ledger,
                 replies, delivered, chain, csvVars, parseVars>>

\* the model call asked again after a failure
ModelSettles_RetriesModel(reply) ==
  /\ pc = "awaitModel"
  /\ modelReply' = reply
  /\ LET result == parse(parsingText, media, fallbackDate,
                         config.defaultCurrency, reply)
     IN  IF result.model.ok \/ Len(stages) >= 2
           THEN /\ outcome' = result
                /\ stages' = stages \o (IF result.fallbackRan
                                          THEN <<"fallbackParseText">>
                                          ELSE <<>>)
                /\ pc' = "done"
           ELSE /\ outcome' = outcome
                /\ stages' = Append(stages, stages[1])
                /\ pc' = "awaitModel"
  /\ UNCHANGED <<config, mode, selfId, message, media, rawText,
                 accountOverride, parsingText, fallbackDate, modelVariant,
                 calls, ledger, replies, delivered, chain, csvVars, parseVars>>

\* the model call settles; parse runs to its return or throw
ModelSettles(reply) ==
  /\ pc = "awaitModel"
  /\ modelReply' = reply
  /\ outcome' = parse(parsingText, media, fallbackDate,
                      config.defaultCurrency, reply)
  /\ stages' = stages \o (IF outcome'.fallbackRan THEN <<"fallbackParseText">>
                          ELSE <<>>)
  /\ pc' = "done"
  /\ UNCHANGED <<config, mode, selfId, message, media, rawText,
                 accountOverride, parsingText, fallbackDate, modelVariant,
                 calls, ledger, replies, delivered, chain, csvVars, parseVars>>

\* the catch branch sending the failure text whatever the flag says
Catch_AlwaysReplies ==
  /\ pc' = "failureReply"
  /\ calls' = Append(calls, "reply")
  /\ replies' = Append(replies, FailureReply)

\* the catch branch of handleMessage: the fixed failure text is sent when
\* replies are enabled, otherwise the handler ends
Catch ==
  IF config.replyEnabled
    THEN /\ pc' = "failureReply"
         /\ calls' = Append(calls, "reply")
         /\ replies' = Append(replies, FailureReply)
    ELSE /\ pc' = "handled"
         /\ UNCHANGED <<calls, replies>>

\* handleMessage resumes after parse: with a record it asks for the chat,
\* with an error it enters the catch branch
ParseSettles ==
  /\ pc = "done"
  /\ IF outcome.result.ok
       THEN /\ pc' = "getChat"
            /\ calls' = Append(calls, "getChat")
            /\ UNCHANGED replies
       ELSE Catch
  /\ UNCHANGED <<config, mode, selfId, message, media, rawText,
                 accountOverride, parsingText, fallbackDate, modelVariant,
                 modelReply, outcome, stages, ledger, delivered, chain,
                 csvVars, parseVars>>

\* message.getChat settles; on success appendExpense is called
GetChatSettles(resolved) ==
  /\ pc = "getChat"
  /\ IF resolved
       THEN /\ pc' = "appendExpense"
            /\ calls' = Append(calls, "appendExpense")
            /\ UNCHANGED replies
       ELSE Catch
  /\ UNCHANGED <<config, mode, selfId, message, media, rawText,
                 accountOverride, parsingText, fallbackDate, modelVariant,
                 modelReply, outcome, stages, ledger, delivered, chain,
                 csvVars, parseVars>>

\* const note = media && parsingText ? parsingText : ""
MetadataNote == IF ~media.isNull /\ parsingText # <<>> THEN parsingText ELSE <<>>

\* handleMessage after appendExpense has resolved: the confirmation is
\* built and, when replies are enabled, sent
SendConfirmation(expense) ==
  LET confirmation == buildSuccessReply(expense)
  IN  IF ~confirmation.ok THEN Catch
      ELSE IF config.replyEnabled
        THEN /\ pc' = "reply"
             /\ calls' = Append(calls, "reply")
             /\ replies' = Append(replies, confirmation.record)
        ELSE /\ pc' = "handled"
             /\ UNCHANGED <<calls, replies>>

\* appendExpense called again after a rejection
AppendSettles_RetriesOnFailure(resolved) ==
  /\ pc = "appendExpense"
  /\ IF resolved
       THEN /\ ledger' = Append(ledger,
                                appendExpense(mode, outcome.result.record,
                                              MetadataNote))
            /\ SendConfirmation(outcome.result.record)
       ELSE /\ pc' = "appendExpense"
            /\ calls' = Append(calls, "appendExpense")
            /\ UNCHANGED <<ledger, replies>>
  /\ UNCHANGED <<config, mode, selfId, message, media, rawText,
                 accountOverride, parsingText, fallbackDate, modelVariant,
                 modelReply, outcome, stages, delivered, chain, csvVars,
                 parseVars>>

\* appendExpense settles: resolved with the row written, or rejected with
\* nothing written
AppendSettles(resolved) ==
  /\ pc = "appendExpense"
  /\ IF resolved
       THEN /\ ledger' = Append(ledger,
                                appendExpense(mode, outcome.result.record,
                                              MetadataNote))
            /\ SendConfirmation(outcome.result.record)
       ELSE /\ UNCHANGED ledger
            /\ Catch
  /\ UNCHANGED <<config, mode, selfId, message, media, rawText,
                 accountOverride, parsingText, fallbackDate, modelVariant,
                 modelReply, outcome, stages, delivered, chain, csvVars,
                 parseVars>>

\* message.reply(confirmation) settles; a rejection enters the catch branch
ReplySettles(resolved) ==
  /\ pc = "reply"
  /\ IF resolved
       THEN /\ pc' = "handled"
            /\ delivered' = Append(delivered, replies[Len(replies)])
            /\ UNCHANGED <<calls, replies>>
       ELSE /\ Catch
            /\ UNCHANGED delivered
  /\ UNCHANGED <<config, mode, selfId, message, media, rawText,
                 accountOverride, parsingText, fallbackDate, modelVariant,
                 modelReply, outcome, stages, ledger, chain, csvVars,
                 parseVars>>

\* message.reply(failure text) settles; a rejection leaves handleMessage
\* and is logged by the listener
FailureReplySettles(resolved) ==
  /\ pc = "failureReply"
  /\ pc' = "handled"
  /\ delivered' = IF resolved THEN Append(delivered, replies[Len(replies)])
                  ELSE delivered
  /\ UNCHANGED <<config, mode, selfId, message, media, rawText,
                 accountOverride, parsingText, fallbackDate, modelVariant,
                 modelReply, outcome, stages, calls, ledger, replies, chain,
                 csvVars, parseVars>>

\* the promise of handleMessage settles and its locals are gone
HandlerSettles ==
  /\ pc \in {"handled", "skipped"}
  /\ pc' = "idle"
  /\ message' = NoMessage
  /\ media' = NoMedia
  /\ rawText' = <<>>
  /\ accountOverride' = Null
  /\ parsingText' = <<>>
  /\ fallbackDate' = <<>>
  /\ modelVariant' = "none"
  /\ modelReply' = Rejected
  /\ outcome' = NoOutcome
  /\ stages' = <<>>
  /\ calls' = <<>>
  /\ ledger' = <<>>
  /\ replies' = <<>>
  /\ delivered' = <<>>
  /\ chain' = NoChain
  /\ UNCHANGED <<config, mode, selfId, csvVars, parseVars>>

\* the steps of handleMessage after the event has arrived
Handle(replySet) ==
  \/ \E downloaded \in Downloads : ExtractMedia(downloaded)
  \/ \E reply \in replySet : ModelSettles(reply)
  \/ ParseSettles
  \/ \E resolved \in BOOLEAN : GetChatSettles(resolved)
  \/ \E resolved \in BOOLEAN : AppendSettles(resolved)
  \/ \E resolved \in BOOLEAN : ReplySettles(resolved)
  \/ \E resolved \in BOOLEAN : FailureReplySettles(resolved)
  \/ HandlerSettles

Next ==
  \/ \E envelope \in ParserEnvelopes, body \in Bodies, hasMedia \in BOOLEAN,
        timestamp \in ParserTimestamps :
       MessageCreate(envelope, body, hasMedia, timestamp, Wid_Self)
  \/ Handle(Replies)

Spec == Init /\ [][Next]_vars

\* the same handler over every timezone specifier and instant, with the
\* bodies and replies that make parse return and throw
DateInit ==
  Idle([defaultCurrency : {S_USD}, timezone : Timezones,
        replyEnabled : BOOLEAN, selfMessagesOnly : {TRUE},
        allowedChatIds : {<<>>}],
       SheetsModes)

DateNext ==
  \/ \E envelope \in ParserEnvelopes, body \in DateBodies,
        hasMedia \in BOOLEAN, timestamp \in Timestamps :
       MessageCreate(envelope, body, hasMedia, timestamp, Wid_Self)
  \/ Handle(DateReplies)

DateSpec == DateInit /\ [][DateNext]_vars

\* the listener with its filters and with the bot's own replies coming
\* back as events, over every envelope and filter configuration
ListenerInit ==
  Idle([defaultCurrency : {S_USD}, timezone : {TZ_UTC},
        replyEnabled : BOOLEAN, selfMessagesOnly : BOOLEAN,
        allowedChatIds : AllowLists],
       {"local"})

ListenerNext ==
  \/ \E envelope \in Envelopes, body \in ListenerBodies, hasMedia \in BOOLEAN,
        timestamp \in ParserTimestamps, wid \in ClientWids :
       MessageCreate(envelope, body, hasMedia, timestamp, wid)
  \/ ReplySurfaces
  \/ Handle(DateReplies)

ListenerSpec == ListenerInit /\ [][ListenerNext]_vars

----------------------------------------------------------------------------
(* Concurrent appendToCsv calls on one log file: sheets.js 98-139.  Each   *)
(* file operation takes effect at some moment between its call and the     *)
(* resumption of its caller, so effect and resumption are separate steps.  *)

\* how many appendToCsv calls run at once
NumCalls == 2

CsvCalls == 1..NumCalls

\* the lines of the log: the header, or the row of a call
HeaderLine == [kind |-> "header", call |-> 0]
RowLine(c) == [kind |-> "row", call |-> c]

\* the log as a previous run left it
HeaderOnlyFile == [exists |-> TRUE, lines |-> <<HeaderLine>>, headerWrites |-> 0]

CsvInit ==
  /\ HandlerIdle([defaultCurrency : {S_USD}, timezone : {TZ_UTC},
                  replyEnabled : {FALSE}, selfMessagesOnly : {TRUE},
                  allowedChatIds : {<<>>}],
                 {"local"})
  /\ ParseIdle
  /\ csvFile \in {NoFile, HeaderOnlyFile}
  /\ csvCall = [c \in CsvCalls |-> "idle"]

\* appendToCsv is called and suspends in mkdir
CsvCallStarts(c) ==
  /\ csvCall[c] = "idle"
  /\ csvCall' = [csvCall EXCEPT ![c] = "mkdir"]
  /\ UNCHANGED <<csvFile, handlerVars, parseVars>>

\* mkdir settles; the caller tests existsSync and calls writeFile when the
\* file is missing, appendFile when it is there
MkdirSettles(c, resolved) ==
  /\ csvCall[c] = "mkdir"
  /\ csvCall' = [csvCall EXCEPT ![c] =
                   IF ~resolved THEN "rejected"
                   ELSE IF ~csvFile.exists THEN "writeFile"
                   ELSE "appendFile"]
  /\ UNCHANGED <<csvFile, handlerVars, parseVars>>

\* writeFile(header) takes effect: the file is created or truncated and
\* holds the header alone; a failed write leaves the file as it was
WriteFileRuns(c, succeeds) ==
  /\ csvCall[c] = "writeFile"
  /\ csvFile' = IF succeeds
                  THEN [exists |-> TRUE, lines |-> <<HeaderLine>>,
                        headerWrites |-> csvFile.headerWrites + 1]
                  ELSE csvFile
  /\ csvCall' = [csvCall EXCEPT ![c] =
                   IF succeeds THEN "writeFileDone" ELSE "writeFileFailed"]
  /\ UNCHANGED <<handlerVars, parseVars>>

\* the caller resumes after writeFile: it builds its row and calls
\* appendFile, or rejects
WriteFileSettles(c) ==
  /\ csvCall[c] \in {"writeFileDone", "writeFileFailed"}
  /\ csvCall' = [csvCall EXCEPT ![c] =
                   IF csvCall[c] = "writeFileDone" THEN "appendFile"
                   ELSE "rejected"]
  /\ UNCHANGED <<csvFile, handlerVars, parseVars>>

\* appendFile(row) takes effect: the row goes to the end of the file, which
\* is created when missing; a failed append leaves the file as it was
AppendFileRuns(c, succeeds) ==
  /\ csvCall[c] = "appendFile"
  /\ csvFile' = IF succeeds
                  THEN [exists |-> TRUE,
                        lines |-> Append(csvFile.lines, RowLine(c)),
                        headerWrites |-> csvFile.headerWrites]
                  ELSE csvFile
  /\ csvCall' = [csvCall EXCEPT ![c] =
                   IF succeeds THEN "appendFileDone" ELSE "appendFileFailed"]
  /\ UNCHANGED <<handlerVars, parseVars>>

\* the caller resumes after appendFile and appendToCsv settles
AppendFileSettles(c) ==
  /\ csvCall[c] \in {"appendFileDone", "appendFileFailed"}
  /\ csvCall' = [csvCall EXCEPT ![c] =
                   IF csvCall[c] = "appendFileDone" THEN "resolved"
                   ELSE "rejected"]
  /\ UNCHANGED <<csvFile, handlerVars, parseVars>>

CsvNext ==
  \E c \in CsvCalls :
    \/ CsvCallStarts(c)
    \/ \E resolved \in BOOLEAN : MkdirSettles(c, resolved)
    \/ \E succeeds \in BOOLEAN : WriteFileRuns(c, succeeds)
    \/ WriteFileSettles(c)
    \/ \E succeeds \in BOOLEAN : AppendFileRuns(c, succeeds)
    \/ AppendFileSettles(c)

CsvSpec == CsvInit /\ [][CsvNext]_vars

----------------------------------------------------------------------------
(* Concurrent ExpenseParser.parse invocations on the one parser object:    *)
(* expenseParser.js 204-248.  this.defaultCurrency and this.timezone are   *)
(* set by the constructor and only read; text, media, timestampMs and      *)
(* fallbackDate are parameters and locals of each invocation.              *)

\* how many parse invocations run at once
NumParses == 2

ParseCalls == 1..NumParses

\* what the invocations are given
ParseTexts == {<<>>, Body_Lunch}
ParseMedia == {NoMedia, Download(MIME_Jpeg, TRUE)}
ParseTimestamps == {1704067199, 1704128400}

NoInvocation ==
  [pc |-> "idle", text |-> <<>>, media |-> NoMedia, timestamp |-> 0,
   fallbackDate |-> <<>>, reply |-> Rejected, result |-> NoResult]

ParseInit ==
  /\ HandlerIdle([defaultCurrency : {S_USD}, timezone : ParserTimezones,
                  replyEnabled : {FALSE}, selfMessagesOnly : {TRUE},
                  allowedChatIds : {<<>>}],
                 {"local"})
  /\ CsvIdle
  /\ invocation = [p \in ParseCalls |-> NoInvocation]
  /\ started = <<>>

\* parse is called: it computes the fallback date and suspends in the
\* model call of its branch
ParseStarts(p, text, parseMedia, timestamp) ==
  /\ invocation[p].pc = "idle"
  /\ invocation' = [invocation EXCEPT ![p] =
       [pc |-> "awaitModel", text |-> text, media |-> parseMedia,
        timestamp |-> timestamp,
        fallbackDate |-> formatDateFromTimestamp(timestamp, config.timezone),
        reply |-> Rejected, result |-> NoResult]]
  /\ started' = Append(started, p)
  /\ UNCHANGED <<handlerVars, csvVars>>

\* the fallback date kept on the parser object, so that a resumed
\* invocation reads the one of the invocation that started last
ParseModelSettles_SharedFallbackDate(p, reply) ==
  /\ invocation[p].pc = "awaitModel"
  /\ invocation' = [invocation EXCEPT ![p] =
       [@ EXCEPT !.pc = "settled", !.reply = reply,
                 !.result = parse(invocation[p].text, invocation[p].media,
                                  invocation[started[Len(started)]].fallbackDate,
                                  config.defaultCurrency, reply).result]]
  /\ UNCHANGED <<started, handlerVars, csvVars>>

\* the model call of an invocation settles and the invocation runs to its
\* return or throw with its own text, media and fallback date
ParseModelSettles(p, reply) ==
  /\ invocation[p].pc = "awaitModel"
  /\ invocation' = [invocation EXCEPT ![p] =
       [@ EXCEPT !.pc = "settled", !.reply = reply,
                 !.result = parse(invocation[p].text, invocation[p].media,
                                  invocation[p].fallbackDate,
                                  config.defaultCurrency, reply).result]]
  /\ UNCHANGED <<started, handlerVars, csvVars>>

ParseNext ==
  \E p \in ParseCalls :
    \/ \E text \in ParseTexts, parseMedia \in ParseMedia,
          timestamp \in ParseTimestamps :
         ParseStarts(p, text, parseMedia, timestamp)
    \/ \E reply \in DateReplies : ParseModelSettles(p, reply)

ParseSpec == ParseInit /\ [][ParseNext]_vars

----------------------------------------------------------------------------
(* Properties of the extraction pipeline.                                  *)

\* parse has returned a record
Returned == pc = "done" /\ outcome.result.ok

\* parse has thrown
Thrown == pc = "done" /\ ~outcome.result.ok

\* the regex fallback applied to the text parse was given
FallbackOfText ==
  fallbackParseText(parsingText, fallbackDate, config.defaultCurrency)

\* C1: with an image present, when the model image parse fails and the
\* text is non-empty, the regex fallback is run on that text and parse ends
\* as the fallback ends (its record is returned); the model error is not
\* what parse throws.
C1_ImageFailureFallsBackToText ==
  (pc = "done" /\ ~media.isNull /\ ~outcome.model.ok /\ parsingText # <<>>)
    => /\ modelVariant = "image"
       /\ outcome.fallbackRan
       /\ outcome.result = FallbackOfText
       /\ outcome.result # outcome.model

C1_Witness ==
  /\ pc = "done" /\ ~media.isNull /\ parsingText # <<>>
  /\ ~outcome.model.ok /\ outcome.fallbackRan /\ outcome.result.ok

\* C2: with an image present and empty text, when the model image parse
\* fails, parse throws the original model error: no record is returned and
\* the regex fallback is not attempted.
C2_ImageFailureWithoutTextPropagates ==
  (pc = "done" /\ ~media.isNull /\ ~outcome.model.ok /\ parsingText = <<>>)
    => /\ ~outcome.fallbackRan
       /\ ~outcome.result.ok
       /\ outcome.result = outcome.model

C2_Witness ==
  /\ pc = "done" /\ ~media.isNull /\ parsingText = <<>>
  /\ ~outcome.model.ok /\ Thrown /\ outcome.result.error = "invoke"

\* C3: with no image the model text parse is attempted first; the regex
\* fallback is run on the same text exactly when it fails; parse throws if
\* and only if both the model text parse and the regex fallback fail.
C3_TextPathFailsIffBothFail ==
  (pc = "done" /\ media.isNull)
    => /\ modelVariant = "text"
       /\ outcome.fallbackRan <=> ~outcome.model.ok
       /\ outcome.model.ok => outcome.result = outcome.model
       /\ ~outcome.model.ok => outcome.result = FallbackOfText
       /\ ~outcome.result.ok <=> (~outcome.model.ok /\ ~FallbackOfText.ok)

C3_Witness ==
  /\ pc = "done" /\ media.isNull /\ ~outcome.model.ok
  /\ outcome.fallbackRan /\ Thrown /\ outcome.result.error = "fallback"

\* C4: every record parse returns has a finite amount strictly greater
\* than zero, and a text whose amount token is zero ends in a failure of
\* the regex fallback, never in a returned record.
C4_ReturnedAmountIsPositive ==
  /\ Returned => IsPositive(outcome.result.record.amount)
  /\ (pc = "done" /\ outcome.fallbackRan /\ FallbackMatch(parsingText).matched
      /\ ~IsPositive(parseFloat(RemoveAll(FallbackMatch(parsingText).amount,
                                          ","))))
       => Thrown

\* the amount of the settled reply after coercion
CoercedReplyAmount == coerceNumber(Spread(Null, modelReply.members.amount))

\* the settled reply parsed as the JSON object with its members
ReplyIsObject ==
  /\ ~modelReply.rejected
  /\ cleanJsonResponse(modelReply.raw, modelReply.members)
       = Success(modelReply.members)

\* C5: the model stage raises for every reply whose coerced amount is not a
\* finite number greater than zero (missing, non-numeric, zero, negative).
C5_NonPositiveAmountRaises ==
  (pc = "done" /\ ReplyIsObject
   /\ (CoercedReplyAmount.isNull \/ ~IsPositive(CoercedReplyAmount.n)))
    => ~outcome.model.ok

\* a string of the form YYYY-MM-DD
IsIsoDate(v) ==
  /\ v.t = "str"
  /\ Len(v.s) = 10
  /\ v.s[5] = "-" /\ v.s[8] = "-"
  /\ \A i \in {1, 2, 3, 4, 6, 7, 9, 10} : v.s[i] \in DigitSet

\* C6: every record parse returns has a date of the form YYYY-MM-DD.
C6_ReturnedDateIsIso ==
  Returned => IsIsoDate(outcome.result.record.date)

\* exactly three upper-case letters
IsCurrencyCode(c) == Len(c) = 3 /\ \A i \in 1..3 : c[i] \in UpperSet

\* the model proposed no currency: absent, null, empty or only white space
ReplyCurrencyBlank ==
  LET c == modelReply.members.currency
  IN  Falsy(c) \/ (c.t = "str" /\ trim(c.s) = <<>>)

\* C7: every record parse returns has a currency of exactly three
\* upper-case letters; it is the default currency when the model's currency
\* is empty or white space, or the regex fallback finds no currency token.
C7_ReturnedCurrencyIsCode ==
  Returned =>
    /\ IsCurrencyCode(outcome.result.record.currency)
    /\ (~outcome.fallbackRan /\ ReplyIsObject /\ ReplyCurrencyBlank)
         => outcome.result.record.currency = config.defaultCurrency
    /\ (outcome.fallbackRan /\ FallbackMatch(parsingText).currency = Undefined)
         => outcome.result.record.currency = config.defaultCurrency

\* a non-empty string
IsNonEmptyString(v) == v.t = "str" /\ Len(v.s) > 0

\* C8: every record parse returns has a non-empty description and a
\* non-empty category, on the model paths and on the regex fallback path.
C8_ReturnedTextsNonEmpty ==
  Returned =>
    /\ IsNonEmptyString(outcome.result.record.description)
    /\ IsNonEmptyString(outcome.result.record.category)

C8_Witness ==
  /\ Returned /\ ~outcome.fallbackRan /\ ReplyIsObject
  /\ Falsy(modelReply.members.description)
  /\ outcome.result.record.description = Str(S_Expense)

\* C9: the account of every record parse returns is null or a canonical
\* name of the closed account vocabulary.
C9_ReturnedAccountInVocabulary ==
  Returned =>
    \/ IsNullish(outcome.result.record.account)
    \/ /\ outcome.result.record.account.t = "str"
       /\ outcome.result.record.account.s \in CanonicalAccounts

\* the override directive matches a canonical name case-insensitively
OverrideIsCanonical ==
  /\ accountOverride.t = "str"
  /\ toLowerCase(accountOverride.s) \in CanonicalAccounts

\* C10: when the message carries an override directive that matches a
\* canonical account name case-insensitively, the returned record's
\* account is that canonical name.
C10_OverrideWins ==
  (Returned /\ OverrideIsCanonical)
    => outcome.result.record.account = Str(toLowerCase(accountOverride.s))

\* the account vocabulary in its definition order
AccountVocabulary ==
  <<<<"c", "a", "s", "h">>,
    <<"g", "o", "p", "a", "y">>,
    <<"s", "h", "o", "p", "e", "e", "p", "a", "y">>,
    <<"i", "s", "a", "k", "u">>,
    <<"b", "c", "a">>,
    <<"f", "l", "a", "z", "z", " ", "e", "m", "o", "n", "e", "y">>,
    <<"s", "u", "p", "e", "r", "b", "a", "n", "k">>,
    <<"j", "a", "g", "o", " ", "c", "l", "o", "u", "d", "t", "h", "i", "n", "g", "y">>>>

\* the alias occurs in the text as a whole word, case-insensitively
MatchesAlias(text, alias) ==
  LET lower == toLowerCase(text)
  IN  \E i \in 1..(Len(lower) - Len(alias) + 1) :
        /\ SubSeq(lower, i, i + Len(alias) - 1) = alias
        /\ (i = 1 \/ lower[i - 1] \notin WordSet)
        /\ (i + Len(alias) > Len(lower) \/ lower[i + Len(alias)] \notin WordSet)

\* the canonical accounts, by index, that match the candidate text
MatchingAccounts(text) ==
  {k \in DOMAIN AccountVocabulary : MatchesAlias(text, AccountVocabulary[k])}

\* the text candidates in priority order: cleaned text, raw text,
\* description, merchant of the returned record
TextCandidates ==
  LET record == outcome.result.record
  IN  <<parsingText,
        rawText,
        IF record.description.t = "str" THEN record.description.s ELSE <<>>,
        IF record.merchant.t = "str" THEN record.merchant.s ELSE <<>>>>

\* the account the text candidates resolve to, or null
AccountFromText ==
  LET hits == {c \in 1..4 : MatchingAccounts(TextCandidates[c]) # {}}
  IN  IF hits = {} THEN Null
      ELSE LET first == CHOOSE c \in hits : \A d \in hits : c <= d
               names == MatchingAccounts(TextCandidates[first])
           IN  Str(AccountVocabulary[CHOOSE k \in names :
                                       \A j \in names : k <= j])

\* the account the model stage proposed for the returned record
ProposedAccount ==
  IF outcome.fallbackRan THEN Null ELSE modelReply.members.account

\* the proposed account matches a canonical name case-insensitively
ProposedIsCanonical ==
  /\ ProposedAccount.t = "str"
  /\ toLowerCase(trim(ProposedAccount.s)) \in CanonicalAccounts

\* C11: when neither the override directive nor the model-proposed account
\* matches the vocabulary, parse still returns, and the returned record's
\* account is the one resolved from the text candidates (cleaned text, raw
\* text, description, merchant, in that order; within a candidate the first
\* canonical account in vocabulary order), or null when none matches.
C11_AccountResolvedFromText ==
  (Returned /\ ~OverrideIsCanonical /\ ~ProposedIsCanonical)
    => IF AccountFromText = Null
         THEN IsNullish(outcome.result.record.account)
         ELSE outcome.result.record.account = AccountFromText

----------------------------------------------------------------------------
(* Properties of the date resolver.                                        *)

\* parse has computed the fallback date of the current message
DateResolved == pc \notin {"idle", "skipped", "extractMedia"}

\* YYYY-MM-DD with a month of 01..12 and a day of 01..31
IsCalendarDate(d) ==
  /\ IsIsoDate(Str(d))
  /\ DigitsToNat(SubSeq(d, 6, 7)) \in 1..12
  /\ DigitsToNat(SubSeq(d, 9, 10)) \in 1..31

\* C12: formatDateFromTimestamp gives, for every instant and every
\* timezone specifier (a zone name the calendar engine knows, a fixed
\* offset, or text nothing resolves), a well-formed YYYY-MM-DD string, and
\* computing it again from the same instant and specifier gives the same
\* string.
C12_DateIsAlwaysWellFormed ==
  DateResolved =>
    /\ IsCalendarDate(fallbackDate)
    /\ fallbackDate = formatDateFromTimestamp(message.timestamp,
                                             config.timezone)

C12_Witness ==
  /\ DateResolved
  /\ config.timezone = TZ_BadOffset
  /\ message.timestamp = 1
  /\ fallbackDate = <<"1", "9", "7", "0", "-", "0", "1", "-", "0", "1">>

\* the offset in minutes each fixed-offset specifier denotes
DenotedOffset ==
  [tz \in {TZ_UtcPlus7, TZ_GmtPlus0700, TZ_UtcMinus0530, TZ_UtcPlus0,
           TZ_GmtMinus0000} |->
     CASE tz \in {TZ_UtcPlus7, TZ_GmtPlus0700} -> 420
       [] tz = TZ_UtcMinus0530 -> -330
       [] OTHER -> 0]

\* C13: for every instant, fixed-offset specifiers that denote the same
\* offset give the same date, and a specifier of offset zero gives the date
\* the literal zone "UTC" gives.
C13_EqualOffsetsGiveEqualDates ==
  (DateResolved /\ config.timezone \in DOMAIN DenotedOffset) =>
    /\ \A other \in DOMAIN DenotedOffset :
         DenotedOffset[other] = DenotedOffset[config.timezone]
           => formatDateFromTimestamp(message.timestamp, other) = fallbackDate
    /\ DenotedOffset[config.timezone] = 0
         => fallbackDate = formatDateFromTimestamp(message.timestamp, TZ_UTC)

C13_Witness ==
  /\ DateResolved
  /\ config.timezone = TZ_GmtPlus0700
  /\ message.timestamp = 1710694800
  /\ fallbackDate = <<"2", "0", "2", "4", "-", "0", "3", "-", "1", "8">>
  /\ formatDateFromTimestamp(message.timestamp, TZ_UtcPlus7) = fallbackDate
  /\ formatDateFromTimestamp(message.timestamp, TZ_UTC) # fallbackDate

\* the plain UTC calendar date of the current message's instant
UtcDate == DateAtOffset(message.timestamp, 0)

\* C14: a specifier the calendar engine rejects and that is not of the
\* fixed-offset form gets the plain UTC date of the instant; a specifier
\* the engine resolves gets the engine's date, and a fixed-offset specifier
\* the date at its offset, so the plain UTC date is used only when both
\* other strategies failed.
C14_UnresolvableZoneGivesUtcDate ==
  DateResolved =>
    /\ config.timezone \in {TZ_Mars, TZ_BadOffset} => fallbackDate = UtcDate
    /\ config.timezone \in IntlZones
         => fallbackDate = DateAtOffset(message.timestamp,
                                        IntlOffset(config.timezone))
    /\ config.timezone \in DOMAIN DenotedOffset
         => fallbackDate = DateAtOffset(message.timestamp,
                                        DenotedOffset[config.timezone])

C14_Witness ==
  /\ DateResolved
  /\ config.timezone = TZ_Mars
  /\ message.timestamp = 1710694800
  /\ fallbackDate = D_Iso
  /\ formatDateFromTimestamp(message.timestamp, TZ_Jakarta) # fallbackDate

----------------------------------------------------------------------------
(* Properties of the regex fallback.                                       *)

\* parse has returned the record of the regex fallback
FallbackReturned == Returned /\ outcome.fallbackRan

D_NewYear == <<"2", "0", "2", "4", "-", "0", "1", "-", "0", "1">>

\* the leading run of letters and white space of the text, trimmed
LeadingRun(text) ==
  trim(SubSeq(text, 1, PrefixLen(text, LetterSet \cup SpaceSet)))

\* C15: every record the regex fallback produces has the fallback date,
\* category "General", merchant null and account null, and as description
\* the trimmed leading run of letters and white space; for
\* ("Lunch 12.50 USD", "2024-01-01", "USD") it is {date "2024-01-01",
\* description "Lunch", category "General", amount 12.5, currency "USD",
\* merchant null, account null}.
C15_FallbackRecordShape ==
  FallbackReturned =>
    /\ outcome.result.record.date = Str(fallbackDate)
    /\ outcome.result.record.category = Str(S_General)
    /\ outcome.result.record.merchant = Null
    /\ outcome.result.record.account = Null
    /\ outcome.result.record.description = Str(LeadingRun(parsingText))
    /\ (parsingText = Body_Lunch /\ fallbackDate = D_NewYear
        /\ config.defaultCurrency = S_USD)
         => outcome.result.record =
              [date        |-> Str(D_NewYear),
               description |-> Str(S_Lunch),
               category    |-> Str(S_General),
               amount      |-> parseFloat(<<"1", "2", ".", "5">>),
               currency    |-> S_USD,
               merchant    |-> Null,
               account     |-> Null]

\* C16: the regex fallback reads the comma of "3,50" as the decimal
\* separator and maps a currency symbol to its ISO code: for
\* ("Coffee 3,50 €", "2024-01-01", "USD") the amount is 3.5 and the
\* currency "EUR".
C16_CommaIsDecimalSeparator ==
  (FallbackReturned /\ parsingText = Body_Coffee)
    => /\ outcome.result.record.amount = parseFloat(<<"3", ".", "5">>)
       /\ outcome.result.record.currency = S_EUR

----------------------------------------------------------------------------
(* Properties of the model stage's normalization.                          *)

\* the settled reply is a JSON object already in canonical form
CanonicalReply ==
  LET m == modelReply.members
  IN  /\ ReplyIsObject
      /\ IsIsoDate(m.date)
      /\ IsNonEmptyString(m.description)
      /\ IsNonEmptyString(m.category)
      /\ m.amount.t = "num" /\ IsPositive(m.amount.n)
      /\ m.currency.t = "str" /\ IsCurrencyCode(m.currency.s)
      /\ (m.merchant = Null \/ m.merchant.t = "str")
      /\ \/ m.account = Null
         \/ /\ m.account.t = "str"
            /\ m.account.s # <<>>
            /\ trim(m.account.s) = m.account.s

\* a record read as the members of a reply
AsReply(record) ==
  Members(record.date, record.description, record.category,
          NumValue(record.amount), Str(record.currency), record.merchant,
          record.account)

\* the record has, member by member, the values of the reply
IdenticalToReply(record, m) ==
  /\ record.date = m.date
  /\ record.description = m.description
  /\ record.category = m.category
  /\ m.amount.t = "num" /\ record.amount = m.amount.n
  /\ m.currency.t = "str" /\ record.currency = m.currency.s
  /\ record.merchant = m.merchant
  /\ record.account = m.account

\* normalizing a reply in canonical form returns a record identical to it
CanonicalReplyIsKept ==
  (pc = "done" /\ CanonicalReply)
    => /\ outcome.model.ok
       /\ IdenticalToReply(outcome.model.record, modelReply.members)

\* normalizing the record that came out of a canonical reply returns it
\* unchanged
CanonicalRecordIsFixed ==
  (pc = "done" /\ CanonicalReply)
    => normalizeResponse(AsReply(outcome.model.record), fallbackDate,
                         config.defaultCurrency) = outcome.model

----------------------------------------------------------------------------
(* Properties of the handler: ledger append and replies.                   *)

\* how often a call occurs in the calls of the current handling
CallCount(name) == Cardinality({i \in DOMAIN calls : calls[i] = name})

\* the positions of a call in the calls of the current handling
CallsOf(name) == {i \in DOMAIN calls : calls[i] = name}

\* C18: handleMessage calls message.reply, with the confirmation or with
\* the fixed failure text, only when config.whatsapp.replyEnabled is true;
\* with the flag false no reply is sent on any path.
C18_RepliesOnlyWhenEnabled ==
  /\ ~config.replyEnabled => (replies = <<>> /\ CallCount("reply") = 0)
  /\ Len(replies) = CallCount("reply")
  /\ \A i \in DOMAIN replies : replies[i].kind \in {"confirmation", "failure"}

C18_Witness ==
  /\ ~config.replyEnabled
  /\ pc = "handled"
  /\ Len(ledger) = 1
  /\ replies = <<>>
  /\ buildSuccessReply(outcome.result.record).ok

\* C19: the row appended for a record has the record's currency in its
\* sixth column (timestamp, date, category, description, amount, currency,
\* merchant, ...), in the Google Sheets mode and in the local CSV mode.
C19_RowCarriesCurrency ==
  \A i \in DOMAIN ledger :
    ledger[i].columns[6] = Str(outcome.result.record.currency)

\* C20: in the handling of one message appendExpense is called at most
\* once, only after parse has returned a record, and before the
\* confirmation is sent; when parse throws it is not called, and after a
\* rejected append it is not called again.
C20_AppendAtMostOnceInOrder ==
  /\ CallCount("appendExpense") <= 1
  /\ Len(ledger) <= CallCount("appendExpense")
  /\ CallCount("appendExpense") = 1
       => /\ outcome.result.ok
          /\ \A a \in CallsOf("appendExpense"), p \in CallsOf("parse") : p < a
  /\ \A i \in DOMAIN replies :
       replies[i].kind = "confirmation"
         => /\ Len(ledger) = 1
            /\ \A a \in CallsOf("appendExpense"), r \in CallsOf("reply") : a < r
  /\ (pc \notin {"idle", "extractMedia", "awaitModel"} /\ ~outcome.result.ok)
       => (CallCount("appendExpense") = 0 /\ ledger = <<>>)

C20_Witness ==
  /\ pc = "handled"
  /\ calls = <<"extractMedia", "parse", "getChat", "appendExpense", "reply">>
  /\ ledger = <<>>
  /\ replies = <<FailureReply>>


----------------------------------------------------------------------------
(* C24: the failure text and the ledger.                                   *)

\* C24: the fixed failure text is handed to message.reply only for a message
\* for which no ledger row was appended
C24_FailureReplyOnlyWithoutRow ==
  \A i \in DOMAIN replies : replies[i].kind = "failure" => ledger = <<>>


----------------------------------------------------------------------------
(* C21: the filters of the listener.                                       *)

\* the handler has done nothing for the message it was given
NothingDone ==
  /\ calls = <<>>
  /\ stages = <<>>
  /\ media = NoMedia
  /\ modelVariant = "none"
  /\ ledger = <<>>
  /\ replies = <<>>

\* the chat of the message is not in a non-empty ALLOWED_CHAT_IDS
ChatNotAllowed ==
  /\ config.allowedChatIds # <<>>
  /\ \A i \in DOMAIN config.allowedChatIds :
       config.allowedChatIds[i] # message.from

\* self-messages-only is set and somebody else wrote the message
NotFromAccount == config.selfMessagesOnly /\ message.sender # Wid_Self

\* the type of the message is neither 'chat' nor 'image'
UnsupportedType == message.type \notin {"chat", "image"}

\* C21: a message whose chat is not in a non-empty ALLOWED_CHAT_IDS, a
\* message not sent by the logged-in account while self-messages-only is
\* set, and a message whose type is neither 'chat' nor 'image' cause no
\* media download, no model call, no ledger append and no reply.
C21_FilteredMessageDoesNothing ==
  (pc # "idle" /\ (ChatNotAllowed \/ NotFromAccount \/ UnsupportedType))
    => (pc = "skipped" /\ NothingDone)

\* a self-sent chat message outside the allow list has been dropped
C21_Witness ==
  /\ pc = "skipped"
  /\ ChatNotAllowed
  /\ ~NotFromAccount
  /\ ~UnsupportedType
  /\ message.fromMe
  /\ message.body = Body_Lunch


----------------------------------------------------------------------------
(* C22: the bot's own replies coming back as message_create events.        *)

\* rows written and replies delivered since the inbound message, the
\* handling in progress included
AppendsSinceInbound == chain.appends + Len(ledger)
RepliesSinceInbound == chain.replies + Len(delivered)

\* C22: a reply of the bot, surfacing as a message_create event of the
\* logged-in account, is never parsed as an expense: one inbound message
\* leads to at most one ledger append and at most one reply in total.
C22_ReplyIsNeverParsed ==
  /\ chain.depth > 0 => NothingDone
  /\ AppendsSinceInbound <= 1
  /\ RepliesSinceInbound <= 1


----------------------------------------------------------------------------
(* C25, C26: the stages of one parse invocation.                           *)

\* the positions of stages holding one of the given names
StagesOf(names) == {i \in DOMAIN stages : stages[i] \in names}

ModelStages == StagesOf({"parseTextExpense", "parseImageExpense"})
FallbackStages == StagesOf({"fallbackParseText"})

\* parse has been entered for the message in hand
ParseEntered == pc \notin {"idle", "skipped", "extractMedia"}

\* C25: in one parse invocation the model is invoked at most once, the
\* image variant if an image is present and the text variant otherwise,
\* never both and never again; the regex fallback runs at most once, and
\* only after the model call or the normalization of its reply has failed.
C25_OneModelCallThenOneFallback ==
  /\ Cardinality(ModelStages) <= 1
  /\ Cardinality(FallbackStages) <= 1
  /\ ParseEntered
       => /\ ModelStages = {1}
          /\ stages[1] = (IF media.isNull THEN "parseTextExpense"
                          ELSE "parseImageExpense")
  /\ FallbackStages # {}
       => /\ FallbackStages = {2}
          /\ pc # "awaitModel"
          /\ ~outcome.model.ok

\* an image message whose model call failed and whose caption was parsed
C25_Witness ==
  /\ pc = "done"
  /\ stages = <<"parseImageExpense", "fallbackParseText">>
  /\ outcome.result.ok


\* the model stage of the message in hand has failed
ModelStageFailed == pc = "done" /\ ~outcome.model.ok

\* the text parse was given is available to the fallback
FallbackDue == media.isNull \/ parsingText # <<>>

\* C26: every kind of failure of the model stage is handled alike by
\* parse: the regex fallback runs when text is available and gives what
\* parse returns or throws, otherwise the error is thrown again; nothing
\* of this depends on the kind of the error.
C26_FailureKindDoesNotMatter ==
  ModelStageFailed
    => /\ outcome.fallbackRan = FallbackDue
       /\ outcome.fallbackRan
            => outcome.result = fallbackParseText(parsingText, fallbackDate,
                                                  config.defaultCurrency)
       /\ ~outcome.fallbackRan => outcome.result = outcome.model

\* a reply whose brace slice is not JSON, followed by the fallback
C26_Witness ==
  /\ ModelStageFailed
  /\ outcome.model.error = "syntax"
  /\ outcome.fallbackRan
  /\ outcome.result.ok


----------------------------------------------------------------------------
(* C23: concurrent appends to the local CSV log.                           *)

\* the calls whose appendFile has put their row into the file
Appended == {c \in CsvCalls : csvCall[c] \in {"appendFileDone", "resolved"}}

\* every appendToCsv call has settled
AllSettled == \A c \in CsvCalls : csvCall[c] \in {"resolved", "rejected"}

\* the rows of the file, as the calls that wrote them
RowCalls == {csvFile.lines[i].call : i \in {j \in DOMAIN csvFile.lines :
                                              csvFile.lines[j].kind = "row"}}

\* C23: with appendToCsv calls interleaved in any order the header line is
\* written at most once, no appended row is lost or overwritten, and after
\* all calls have completed the file holds the header followed by one row
\* for each successful call.
C23_ConcurrentAppendsKeepEveryRow ==
  /\ csvFile.headerWrites <= 1
  /\ Appended \subseteq RowCalls
  /\ (AllSettled /\ Appended # {})
       => /\ csvFile.lines[1] = HeaderLine
          /\ Len(csvFile.lines) = 1 + Cardinality(Appended)
          /\ \A i \in 2..Len(csvFile.lines) : csvFile.lines[i].kind = "row"


----------------------------------------------------------------------------
(* C27: concurrent parse invocations.                                      *)

\* what parse gives for the inputs of invocation p when it runs alone
AloneResult(p) ==
  parse(invocation[p].text, invocation[p].media,
        formatDateFromTimestamp(invocation[p].timestamp, config.timezone),
        config.defaultCurrency, invocation[p].reply).result

\* C27: what parse returns or throws for a message is determined by that
\* message's text, image and timestamp, the read-only configuration and
\* the model's reply to it; invocations for other messages, interleaved
\* in any way at their suspension points, do not change it.
C27_InvocationsDoNotInterfere ==
  \A p \in DOMAIN invocation :
    invocation[p].pc = "settled" => invocation[p].result = AloneResult(p)

\* two invocations with different dates, the first resumed after the
\* second has started, each returning the record of its own message
C27_Witness ==
  /\ started = <<1, 2>>
  /\ invocation[1].pc = "settled"
  /\ invocation[2].pc = "awaitModel"
  /\ invocation[1].fallbackDate # invocation[2].fallbackDate
  /\ invocation[1].result.ok
  /\ invocation[1].result.record.date = Str(invocation[1].fallbackDate)

====
